---- MODULE Spec2Model ----
(***************************************************************************)
(* Verification model of the BetterDeal investment analysis engine         *)
(* (src/src/betterdeal/analysis_engine.py) and of the loan payment formula *)
(* it calls (src/src/rentcast_mcp_server/loan_calculator.py).              *)
(*                                                                         *)
(* Numbers.  The engine computes in IEEE doubles; TLC computes in 32-bit   *)
(* integers.  Every quantity is therefore held on a fixed grid:            *)
(*   - IRR rates in units of 1/RateScale (0.01), so that the clamps -0.99  *)
(*     and 2.00 are grid points; the NPV and its derivative are evaluated  *)
(*     EXACTLY as rationals (numerator over (1+r)^N) and only the Newton   *)
(*     update is rounded to the grid, as a double rounds it to its own     *)
(*     grid.  The convergence tolerance tol is one grid step.              *)
(*   - money of the calculator in cents, percentages in basis points,      *)
(*     loan rates in units of 0.1% (see the calculator section).           *)
(***************************************************************************)
EXTENDS Integers, Sequences, FiniteSets, TLC

VARIABLES
    cash_flows,   \* calculate_irr: the cash_flows argument
    r,            \* calculate_irr: the current iterate r (rate grid units)
    iters,        \* calculate_irr: Newton iterations started so far
    irr_pc,       \* calculate_irr: "entry" | "loop" | "verify", or the return
                  \* statement taken: "ret_guard" | "ret_loop" | "ret_verify"
    irr_result,   \* calculate_irr: the returned value
    calc,         \* the InvestmentCalculator of the analysis (its fields)
    calc_pc,      \* analyze_property: the next step of the pipeline
    core,         \* CoreMetrics returned by calculate_core_metrics
    projection,   \* MultiYearProjection returned by generate_multi_year_projection
    scenarios,    \* run_stress_tests: the scenarios list
    lo,           \* _find_max_rate: lo
    hi,           \* _find_max_rate: hi
    fmr_steps,    \* _find_max_rate: bisection steps done
    max_rate,     \* _find_max_rate: the returned rate
    risk,         \* RiskAnalysis returned by run_stress_tests
    tax,          \* TaxAnalysis returned by calculate_tax_analysis
    comps,        \* analyze_property: comps (a ComparableAnalysis)
    fetch_log,    \* the listing fetches issued to the RentCast client, in order,
                  \* and whether each raised
    strategy_scores,  \* analyze_property: strategy_scores
    best_strategy,    \* analyze_property: best_strategy
    result,       \* what analyze_property returns
    npv,          \* a call of calculate_npv: its discount rate and what it returned
    request,      \* the arguments of the analyze_property call
    looked_up,    \* analyze_property: property_data, zip_code, sqft, purchase_price,
                  \* estimated_rent and market_stats once the lookups are done
    calls         \* the RentCast client calls issued before the analyses, in order,
                  \* and whether each raised

irr_vars == <<cash_flows, r, iters, irr_pc, irr_result>>

report_vars == <<tax, comps, fetch_log, strategy_scores, best_strategy, result>>

calc_vars == <<calc, calc_pc, core, projection, scenarios, lo, hi, fmr_steps, max_rate, risk, report_vars>>

\* the results of the analyses
analysis_vars == <<core, projection, scenarios, lo, hi, fmr_steps, max_rate, risk, tax, comps, fetch_log, strategy_scores, best_strategy>>

request_vars == <<request, looked_up, calls>>

vars == <<irr_vars, calc_vars, npv, request_vars>>

----------------------------------------------------------------------------
(* Arithmetic helpers *)

Abs(a) == IF a < 0 THEN -a ELSE a

Max(a, b) == IF a >= b THEN a ELSE b

Min(a, b) == IF a <= b THEN a ELSE b

Sign(a) == IF a < 0 THEN -1 ELSE IF a > 0 THEN 1 ELSE 0

\* a / b rounded to the nearest integer (b > 0), halves away from zero
RoundDiv(a, b) == Sign(a) * ((2 * Abs(a) + b) \div (2 * b))

RECURSIVE Pow(_, _)
Pow(b, e) == IF e = 0 THEN 1 ELSE b * Pow(b, e - 1)

RECURSIVE SumSeq(_)
SumSeq(s) == IF Len(s) = 0 THEN 0 ELSE Head(s) + SumSeq(Tail(s))

\* <<q, m>> with x * a = q * d + m and 0 <= m < d, for 0 <= a < d, x >= 0,
\* computed by doubling so that no intermediate exceeds 2 * d
RECURSIVE MulQR(_, _, _)
MulQR(x, a, d) ==
    IF x = 0 THEN <<0, 0>>
    ELSE LET h  == MulQR(x \div 2, a, d)
             m2 == 2 * h[2]
             q2 == 2 * h[1] + (m2 \div d)
             m3 == (m2 % d) + (IF x % 2 = 1 THEN a ELSE 0)
         IN  <<q2 + (m3 \div d), m3 % d>>

\* n * x / d rounded to the nearest integer (x >= 0, d # 0)
RatioRound(n, x, d) ==
    LET a  == Abs(n)
        b  == Abs(d)
        qr == MulQR(x, a % b, b)
    IN  Sign(n) * Sign(d) * ((a \div b) * x + qr[1] + (IF 2 * qr[2] >= b THEN 1 ELSE 0))

\* a * b / c rounded to the nearest integer, for b >= 0 and c > 0 with c * b small
MulDivNear(a, b, c) == (a \div c) * b + (((a % c) * b + (c \div 2)) \div c)

\* the largest step that matters: anything beyond it is clamped anyway
StepCap == 5 * 200

\* n * x / d rounded to the nearest integer and capped at +-StepCap (x >= 1, d # 0)
MulDivRound(n, x, d) ==
    IF Abs(n) \div Abs(d) > StepCap
    THEN Sign(n) * Sign(d) * StepCap
    ELSE Max(-StepCap, Min(StepCap, RatioRound(n, x, d)))

----------------------------------------------------------------------------
(* InvestmentCalculator.calculate_irr -- Newton-Raphson *)

RateScale == 100

LoClamp == -99

HiClamp == 200

MaxIter == 200

Tol == 1

NoneResult == [kind |-> "None", rate |-> 0]

Pending == [kind |-> "pending", rate |-> 0]

RateResult(v) == [kind |-> "rate", rate |-> v]

\* 1 + r on the rate grid
OnePlus(rate) == RateScale + rate

\* cf[t] as the source indexes it (t from 0)
Cf(cfs, t) == cfs[t + 1]

\* numerator of NPV(rate) over the denominator (1+rate)^N, N = len - 1:
\*   sum(cf / (1 + r) ** t)  =  NpvNum / OnePlus^N
RECURSIVE NpvNumFrom(_, _, _)
NpvNumFrom(cfs, rate, t) ==
    IF t > Len(cfs) - 1 THEN 0
    ELSE Cf(cfs, t) * Pow(RateScale, t) * Pow(OnePlus(rate), Len(cfs) - 1 - t)
         + NpvNumFrom(cfs, rate, t + 1)

NpvNum(cfs, rate) == NpvNumFrom(cfs, rate, 0)

NpvDen(cfs, rate) == Pow(OnePlus(rate), Len(cfs) - 1)

\* dnpv = sum(-t * cf / (1 + r) ** (t + 1)) = -RateScale * DnpvNum / OnePlus^(N+1)
RECURSIVE DnpvNumFrom(_, _, _)
DnpvNumFrom(cfs, rate, t) ==
    IF t > Len(cfs) - 1 THEN 0
    ELSE t * Cf(cfs, t) * Pow(RateScale, t) * Pow(OnePlus(rate), Len(cfs) - 1 - t)
         + DnpvNumFrom(cfs, rate, t + 1)

DnpvNum(cfs, rate) == DnpvNumFrom(cfs, rate, 0)

\* abs(dnpv) < 1e-12: for integer cash flows and 0.01 <= 1+r <= 3 a non-zero
\* derivative is at least 1/3^(N+1) in magnitude, so the test is dnpv = 0
DnpvTooSmall(cfs, rate) == DnpvNum(cfs, rate) = 0

\* (mutation of calculate_npv: the cash flows compounded instead of discounted)
calculate_npv_compounded(cash_flows_arg, discount_rate) ==
    IF Len(cash_flows_arg) = 0 THEN NoneResult
    ELSE [kind |-> "value",
          num |-> SumSeq([i \in 1..Len(cash_flows_arg) |->
                            cash_flows_arg[i] * Pow(OnePlus(discount_rate), i - 1)
                            * Pow(RateScale, Len(cash_flows_arg) - i)]),
          den |-> Pow(RateScale, Len(cash_flows_arg) - 1)]

\* InvestmentCalculator.calculate_npv: None for an empty series, otherwise
\* sum(cf / (1 + discount_rate) ** t), kept as the exact fraction num / den
calculate_npv(cash_flows_arg, discount_rate) ==
    IF Len(cash_flows_arg) = 0 THEN NoneResult
    ELSE [kind |-> "value",
          num |-> NpvNum(cash_flows_arg, discount_rate),
          den |-> NpvDen(cash_flows_arg, discount_rate)]

\* (mutation of NewtonUpdate: r - npv // dnpv, the quotient floored to a whole
\* number)
NewtonUpdate_floorDiv(cfs, rate) ==
    rate - RateScale *
        ((-MulDivRound(NpvNum(cfs, rate), OnePlus(rate), DnpvNum(cfs, rate))) \div RateScale)

\* r - npv / dnpv on the rate grid:  -npv/dnpv = NpvNum * OnePlus / DnpvNum grid steps
NewtonUpdate(cfs, rate) ==
    rate + MulDivRound(NpvNum(cfs, rate), OnePlus(rate), DnpvNum(cfs, rate))

Clamp(v) == Max(LoClamp, Min(v, HiClamp))

\* abs(npv_check) < max(1.0, total_invested * 0.001)
NpvWithinBound(cfs, rate) ==
    LET a   == Abs(NpvNum(cfs, rate))
        den == NpvDen(cfs, rate)
        inv == Abs(Cf(cfs, 0))
    IN  \/ a < den
        \/ a <= ((inv * den) - 1) \div 1000

TotalReturned(cfs) == SumSeq(Tail(cfs))

\* (mutation of CannotRecover: the test written with < instead of <=)
CannotRecover_strict(cfs) == TotalReturned(cfs) < 0

\* line 420: total_returned <= 0
CannotRecover(cfs) == TotalReturned(cfs) <= 0

\* initial guess: max(-0.5, min(simple_return / len, 0.5)), or 0.10
InitialGuess(cfs) ==
    LET inv == Abs(Cf(cfs, 0))
        ret == TotalReturned(cfs)
    IN  IF inv > 0
        THEN Max(-(RateScale \div 2),
                 Min(RoundDiv(RateScale * (ret - inv), inv * Len(cfs)), RateScale \div 2))
        ELSE RateScale \div 10

IrrReturned == irr_pc \in {"ret_guard", "ret_loop", "ret_verify"}

\* lines 410-428: the guards and the initial guess
IrrEntry ==
    /\ irr_pc = "entry"
    /\ IF Len(cash_flows) < 2
       THEN /\ irr_result' = NoneResult
            /\ irr_pc' = "ret_guard"
            /\ UNCHANGED <<r, iters>>
       ELSE IF CannotRecover(cash_flows)
       THEN /\ irr_result' = NoneResult
            /\ irr_pc' = "ret_guard"
            /\ UNCHANGED <<r, iters>>
       ELSE /\ r' = InitialGuess(cash_flows)
            /\ iters' = 0
            /\ irr_pc' = "loop"
            /\ UNCHANGED irr_result
    /\ UNCHANGED cash_flows

\* lines 433-452: one pass of the for loop
IrrIterate ==
    /\ irr_pc = "loop"
    /\ iters < MaxIter
    /\ iters' = iters + 1
    /\ IF DnpvTooSmall(cash_flows, r)
       THEN /\ irr_pc' = "verify"
            /\ UNCHANGED <<r, irr_result>>
       ELSE LET r_new == Clamp(NewtonUpdate(cash_flows, r))
            IN  IF Abs(r_new - r) < Tol
                THEN IF Abs(r_new - HiClamp) < Tol \/ Abs(r_new - LoClamp) < Tol
                     THEN /\ irr_pc' = "verify"
                          /\ UNCHANGED <<r, irr_result>>
                     ELSE /\ irr_result' = RateResult(r_new)
                          /\ irr_pc' = "ret_loop"
                          /\ UNCHANGED r
                ELSE /\ r' = r_new
                     /\ irr_pc' = IF iters + 1 = MaxIter THEN "verify" ELSE "loop"
                     /\ UNCHANGED irr_result
    /\ UNCHANGED cash_flows

\* lines 454-458: the convergence check after the loop
IrrVerify ==
    /\ irr_pc = "verify"
    /\ irr_result' = IF NpvWithinBound(cash_flows, r) THEN RateResult(r) ELSE NoneResult
    /\ irr_pc' = "ret_verify"
    /\ UNCHANGED <<cash_flows, r, iters>>

----------------------------------------------------------------------------
(* LoanCalculator (loan_calculator.py)                                     *)
(* Money is in cents; fractions such as down_payment_pct are in basis      *)
(* points (1/10000); annual loan interest rates are in units of 0.1%       *)
(* (1/1000), so that the monthly rate rate/12 is rate/MonthScale exactly.  *)

BpScale == 10000

MonthScale == 12000

\* an Optional[float] argument: {} is None, {v} is the value v
IsNone(o) == o = {}

ValueOf(o) == CHOOSE v \in o : TRUE

\* x * bp / 10000, to the nearest cent
Pct(x, bp) == MulDivNear(x, bp, BpScale)

\* discount factors of the loan are held in units of 1/GrowthScale
GrowthScale == MonthScale * BpScale

\* (1 + monthly_rate) ** -num_payments, in units of 1/GrowthScale
RECURSIVE MonthlyDiscount(_, _)
MonthlyDiscount(annual_rate, n) ==
    IF n = 0 THEN GrowthScale
    ELSE IF n > 24 /\ n % 2 = 0
    THEN LET half == MonthlyDiscount(annual_rate, n \div 2)
         IN  RatioRound(half, half, GrowthScale)
    ELSE LET before == MonthlyDiscount(annual_rate, n - 1)
         IN  MulDivNear(before, MonthScale, MonthScale + annual_rate)

\* LoanCalculator.calculate_monthly_payment
\*   M = P * [r(1+r)^n] / [(1+r)^n - 1], rounded to the cent.  Numerator and
\*   denominator are both divided by (1+r)^n, M = P * r / (1 - (1+r)^-n), so
\*   that terms of 30 years stay within 32 bits.
calculate_monthly_payment(principal, annual_rate, years) ==
    IF principal <= 0 THEN 0
    ELSE LET num_payments == years * 12
             v == MonthlyDiscount(annual_rate, num_payments)
         IN  IF annual_rate = 0
             THEN RoundDiv(principal, num_payments)
             ELSE (RatioRound(principal * annual_rate, GrowthScale, GrowthScale - v)
                   + MonthScale \div 2) \div MonthScale

\* self.loan_limits
loan_limits(loan_type) ==
    CASE loan_type = "fha"  -> [min_down_payment_pct |-> 350, default_down_payment_pct |-> 350,
                                annual_fee |-> 85, upfront_fee |-> 175]
      [] loan_type = "va"   -> [min_down_payment_pct |-> 0, default_down_payment_pct |-> 0,
                                annual_fee |-> 0, upfront_fee |-> 215]
      [] loan_type = "usda" -> [min_down_payment_pct |-> 0, default_down_payment_pct |-> 0,
                                annual_fee |-> 35, upfront_fee |-> 100]
      [] OTHER              -> [min_down_payment_pct |-> 500, default_down_payment_pct |-> 2000,
                                annual_fee |-> 50, upfront_fee |-> 0]

\* LoanCalculator.calculate_loan_details: the dictionary it returns
calculate_loan_details(purchase_price, loan_type, down_payment_pct_opt, interest_rate, loan_term_years, property_tax_annual_opt, insurance_annual_opt, hoa_monthly) ==
    LET loan_params == loan_limits(loan_type)
        asked == IF IsNone(down_payment_pct_opt)
                 THEN loan_params.default_down_payment_pct
                 ELSE ValueOf(down_payment_pct_opt)
        down_payment_pct == Max(asked, loan_params.min_down_payment_pct)
        down_payment == Pct(purchase_price, down_payment_pct)
        loan_amount == purchase_price - down_payment
        monthly_payment == calculate_monthly_payment(loan_amount, interest_rate, loan_term_years)
        pmi_monthly ==
            IF loan_type = "conventional" /\ down_payment_pct < 2000
            THEN RoundDiv(Pct(loan_amount, loan_params.annual_fee), 12)
            ELSE IF loan_type \in {"fha", "usda"}
            THEN RoundDiv(Pct(loan_amount, loan_params.annual_fee), 12)
            ELSE 0
        upfront_costs ==
            IF loan_type \in {"fha", "va", "usda"}
            THEN Pct(loan_amount, loan_params.upfront_fee)
            ELSE 0
        property_tax_annual == IF IsNone(property_tax_annual_opt)
                               THEN Pct(purchase_price, 150)
                               ELSE ValueOf(property_tax_annual_opt)
        insurance_annual == IF IsNone(insurance_annual_opt)
                            THEN Pct(purchase_price, 50)
                            ELSE ValueOf(insurance_annual_opt)
        property_tax_monthly == RoundDiv(property_tax_annual, 12)
        insurance_monthly == RoundDiv(insurance_annual, 12)
        total_interest == monthly_payment * loan_term_years * 12 - loan_amount
    IN  [loan_type |-> loan_type,
         purchase_price |-> purchase_price,
         down_payment_pct |-> down_payment_pct,
         down_payment |-> down_payment,
         loan_amount |-> loan_amount,
         interest_rate |-> interest_rate,
         loan_term_years |-> loan_term_years,
         monthly_principal_interest |-> monthly_payment,
         property_tax_monthly |-> property_tax_monthly,
         insurance_monthly |-> insurance_monthly,
         pmi_monthly |-> pmi_monthly,
         hoa_monthly |-> hoa_monthly,
         total_monthly_payment |-> monthly_payment + property_tax_monthly + insurance_monthly
                                   + pmi_monthly + hoa_monthly,
         upfront_costs |-> upfront_costs,
         total_interest |-> total_interest,
         total_cost_of_loan |-> loan_amount + total_interest]

----------------------------------------------------------------------------
(* InvestmentCalculator (analysis_engine.py)                               *)
(* Money in cents, rates and percentages in basis points, ratios such as   *)
(* DSCR in hundredths; growth factors in units of 1/BpScale.               *)

\* float('inf')
Inf == 2000000000

\* a local of analyze_property that has not been assigned yet
Unset == [unset |-> TRUE]

\* loan_details.get(key, default)
Get(d, key, default) == IF key \in DOMAIN d THEN d[key] ELSE default

\* the constructor arguments other than price, rent, loan_details and
\* amortization, with the defaults of lines 194-202
DefaultAssumptions ==
    [vacancy_rate |-> 500, maintenance_pct |-> 100, management_fee_pct |-> 1000,
     capex_reserve_pct |-> 300, appreciation_rate |-> 400, rent_growth_rate |-> 300,
     expense_growth_rate |-> 200, marginal_tax_rate |-> 2200, hold_years |-> 10]

\* InvestmentCalculator.__init__: the fields of the calculator
InvestmentCalculator(purchase_price, estimated_rent, loan_details, amortization, a) ==
    [purchase_price |-> purchase_price,
     estimated_rent |-> estimated_rent,
     loan_details |-> loan_details,
     amortization |-> amortization,
     vacancy_rate |-> a.vacancy_rate,
     maintenance_pct |-> a.maintenance_pct,
     management_fee_pct |-> a.management_fee_pct,
     capex_reserve_pct |-> a.capex_reserve_pct,
     appreciation_rate |-> a.appreciation_rate,
     rent_growth_rate |-> a.rent_growth_rate,
     expense_growth_rate |-> a.expense_growth_rate,
     marginal_tax_rate |-> a.marginal_tax_rate,
     hold_years |-> a.hold_years,
     loan_amount |-> Get(loan_details, "loan_amount", 0),
     annual_debt_service |-> Get(loan_details, "monthly_principal_interest", 0) * 12,
     down_payment |-> Get(loan_details, "down_payment", 0),
     upfront_costs |-> Get(loan_details, "upfront_costs", 0),
     total_cash_invested |-> Get(loan_details, "down_payment", 0)
                             + Get(loan_details, "upfront_costs", 0),
     interest_rate |-> Get(loan_details, "interest_rate_decimal", 65),
     loan_term |-> Get(loan_details, "loan_term_years", 30),
     property_tax_annual |-> Get(loan_details, "property_tax_annual", Pct(purchase_price, 150)),
     insurance_annual |-> Get(loan_details, "insurance_annual", Pct(purchase_price, 50)),
     pmi_annual |-> Get(loan_details, "pmi_monthly", 0) * 12,
     hoa_annual |-> Get(loan_details, "hoa_monthly", 0) * 12,
     maintenance_annual |-> Pct(purchase_price, a.maintenance_pct),
     capex_reserve_annual |-> Pct(purchase_price, a.capex_reserve_pct),
     land_value |-> Pct(purchase_price, 2000),
     depreciable_basis |-> purchase_price - Pct(purchase_price, 2000),
     annual_depreciation |-> RoundDiv((purchase_price - Pct(purchase_price, 2000)) * 2, 55)]

\* (mutation of FixedOpex: the capex reserve left out of the expenses)
FixedOpex_noCapex(c) ==
    c.property_tax_annual + c.insurance_annual + c.pmi_annual
    + c.hoa_annual + c.maintenance_annual

\* opex of calculate_core_metrics without the management fee (lines 249-254, 499-502)
FixedOpex(c) ==
    c.property_tax_annual + c.insurance_annual + c.pmi_annual
    + c.hoa_annual + c.maintenance_annual + c.capex_reserve_annual

\* InvestmentCalculator.calculate_core_metrics
calculate_core_metrics(c) ==
    LET gross_income == c.estimated_rent * 12
        vacancy_loss == Pct(gross_income, c.vacancy_rate)
        egi == gross_income - vacancy_loss
        management_fee == Pct(gross_income, c.management_fee_pct)
        opex == FixedOpex(c) + management_fee
        noi == egi - opex
        cash_flow_bt == noi - c.annual_debt_service
        be_occ == IF gross_income > 0
                  THEN RatioRound(opex + c.annual_debt_service, BpScale, gross_income)
                  ELSE BpScale
    IN  [gross_rental_income |-> gross_income,
         vacancy_loss |-> vacancy_loss,
         effective_gross_income |-> egi,
         operating_expenses |-> opex,
         noi |-> noi,
         annual_debt_service |-> c.annual_debt_service,
         cash_flow_before_tax |-> cash_flow_bt,
         total_cash_invested |-> c.total_cash_invested,
         cash_on_cash_return |-> IF c.total_cash_invested > 0
                                 THEN RatioRound(cash_flow_bt, BpScale, c.total_cash_invested)
                                 ELSE 0,
         cap_rate |-> IF c.purchase_price > 0
                      THEN RatioRound(noi, BpScale, c.purchase_price) ELSE 0,
         gross_rental_yield |-> IF c.purchase_price > 0
                                THEN RatioRound(gross_income, BpScale, c.purchase_price) ELSE 0,
         rent_to_value |-> IF c.purchase_price > 0
                           THEN RatioRound(c.estimated_rent, 10 * BpScale, c.purchase_price) ELSE 0,
         dscr |-> IF c.annual_debt_service > 0
                  THEN RatioRound(noi, 100, c.annual_debt_service) ELSE Inf,
         opex_ratio |-> IF egi > 0 THEN RatioRound(opex, BpScale, egi) ELSE 0,
         break_even_occupancy |-> Min(be_occ, BpScale),
         capex_reserve_annual |-> c.capex_reserve_annual]

\* (1 + rate) ** n, in units of 1/BpScale
RECURSIVE Growth(_, _)
Growth(rate, n) ==
    IF n = 0 THEN BpScale ELSE MulDivNear(Growth(rate, n - 1), BpScale + rate, BpScale)

\* x * factor, factor in units of 1/BpScale
Times(x, factor) == MulDivNear(x, factor, BpScale)

\* (mutation of debt_service_of: no debt service once the loan term is over)
debt_service_untilTerm(c, yr) == IF yr <= c.loan_term THEN c.annual_debt_service ELSE 0

\* line 320: debt_service = self.annual_debt_service, in every year
debt_service_of(c, yr) == c.annual_debt_service

\* lines 301-364: the YearProjection of year yr
YearProjection(c, yr) ==
    LET growth_factor_rent == Growth(c.rent_growth_rate, yr - 1)
        growth_factor_expense == Growth(c.expense_growth_rate, yr - 1)
        growth_factor_value == Growth(c.appreciation_rate, yr)
        gross_income == Times(c.estimated_rent * 12, growth_factor_rent)
        vac_loss == Pct(gross_income, c.vacancy_rate)
        egi == gross_income - vac_loss
        management_fee == Pct(gross_income, c.management_fee_pct)
        opex == Times(c.property_tax_annual, growth_factor_expense)
                + Times(c.insurance_annual, growth_factor_expense)
                + c.pmi_annual
                + Times(c.hoa_annual, growth_factor_expense)
                + Times(c.maintenance_annual, growth_factor_expense)
                + Times(c.capex_reserve_annual, growth_factor_expense)
                + management_fee
        noi == egi - opex
        debt_service == debt_service_of(c, yr)
        cf_bt == noi - debt_service
        depreciation == c.annual_depreciation
        in_schedule == yr <= Len(c.amortization)
        mortgage_interest == IF in_schedule THEN c.amortization[yr].interest_paid ELSE 0
        loan_balance == IF in_schedule THEN c.amortization[yr].remaining_balance ELSE 0
        taxable_income == noi - depreciation - mortgage_interest
        tax_yr == IF taxable_income > 0 THEN Pct(taxable_income, c.marginal_tax_rate) ELSE 0
        cf_at == cf_bt - tax_yr
        prop_value == Times(c.purchase_price, growth_factor_value)
        equity == prop_value - loan_balance
    IN  [year |-> yr,
         gross_income |-> gross_income,
         vacancy_loss |-> vac_loss,
         effective_income |-> egi,
         operating_expenses |-> opex,
         noi |-> noi,
         debt_service |-> debt_service,
         cash_flow_before_tax |-> cf_bt,
         depreciation |-> depreciation,
         mortgage_interest |-> mortgage_interest,
         taxable_income |-> taxable_income,
         tax_liability |-> tax_yr,
         cash_flow_after_tax |-> cf_at,
         property_value |-> prop_value,
         loan_balance |-> loan_balance,
         equity |-> equity,
         return_on_equity |-> IF equity > 0 THEN RatioRound(cf_bt, BpScale, equity) ELSE 0]

ProjectionYears == 30

\* (mutation of PyIndex: the list indexed from 1)
PyIndex_fromOne(seq, i) == IF i <= 0 THEN seq[Len(seq) + i] ELSE seq[i]

\* years[i] as Python indexes a list (i from 0, a negative i counts from the end)
PyIndex(seq, i) == IF i < 0 THEN seq[Len(seq) + i + 1] ELSE seq[i + 1]

\* lines 297, 366-368: the IRR series before the sale is added
SeriesBeforeSale(c, years) ==
    <<-c.total_cash_invested>>
    \o [y \in 1..Max(0, Min(c.hold_years, ProjectionYears)) |-> years[y].cash_flow_after_tax]

\* lines 379-381: net sale proceeds added to the final entry
AddSale(series, net_sale) ==
    IF Len(series) > 1
    THEN [series EXCEPT ![Len(series)] = @ + net_sale]
    ELSE series

\* (mutation of total_cash_returned: the outlay counted with the returns)
total_cash_returned_withOutlay(series) == SumSeq(series)

\* line 385: sum(cf for cf in cash_flows[1:])
total_cash_returned(series) == SumSeq(Tail(series))

\* InvestmentCalculator.generate_multi_year_projection.  The series handed to
\* calculate_irr and calculate_npv is kept as cash_flows.
generate_multi_year_projection(c) ==
    LET years == [yr \in 1..ProjectionYears |-> YearProjection(c, yr)]
        hold_yr == IF c.hold_years <= Len(years)
                   THEN PyIndex(years, c.hold_years - 1)
                   ELSE PyIndex(years, -1)
        terminal_sale_price == hold_yr.property_value
        selling_costs == Pct(terminal_sale_price, 600)
        dep_recapture_tax ==
            Pct(Min(c.annual_depreciation * c.hold_years, c.depreciable_basis), 2500)
        net_sale == terminal_sale_price - selling_costs - hold_yr.loan_balance - dep_recapture_tax
        series == AddSale(SeriesBeforeSale(c, years), net_sale)
        returned == total_cash_returned(series)
    IN  [years |-> years,
         cash_flows |-> series,
         equity_multiple |-> IF c.total_cash_invested > 0
                             THEN RatioRound(returned, 100, c.total_cash_invested)
                             ELSE 0,
         terminal_sale_price |-> terminal_sale_price,
         selling_costs |-> selling_costs,
         depreciation_recapture_tax |-> dep_recapture_tax,
         net_sale_proceeds |-> net_sale]

\* (mutation of scenario_passes: a DSCR of 1.25 asked for)
scenario_passes_dscr125(cf, noi, ds) == cf >= 0 /\ (ds > 0 => 4 * noi >= 5 * ds)

\* line 535: passes = cf >= 0 and dscr >= 1.0, dscr being noi / ds for ds > 0
\* and +infinity otherwise
scenario_passes(cf, noi, ds) == cf >= 0 /\ (ds > 0 => noi >= ds)

\* (mutation of calc_scenario: cash-on-cash divided by max(cash invested, 1)
\* instead of falling back to 0)
calc_scenario_cocPerDollar(c, name, vacancy, rent_mult, expense_mult, rate_add) ==
    LET base_gross == c.estimated_rent * 12
        gross == Pct(base_gross, rent_mult)
        vac == Pct(gross, vacancy)
        egi == gross - vac
        mgmt == Pct(gross, c.management_fee_pct)
        opex == Pct(FixedOpex(c), expense_mult) + mgmt
        noi == egi - opex
        ds == IF rate_add > 0
              THEN calculate_monthly_payment(c.loan_amount, c.interest_rate + rate_add,
                                             c.loan_term) * 12
              ELSE c.annual_debt_service
        cf == noi - ds
    IN  [name |-> name,
         cash_flow_monthly |-> RoundDiv(cf, 12),
         cash_flow_annual |-> cf,
         dscr |-> IF ds > 0 THEN RatioRound(noi, 100, ds) ELSE Inf,
         cash_on_cash |-> RatioRound(cf, BpScale, Max(c.total_cash_invested, 100)),
         passes |-> cf >= 0 /\ (ds > 0 => noi >= ds)]

\* run_stress_tests.calc_scenario (lines 504-536); vacancy, rent_mult and
\* expense_mult in basis points, rate_add in units of 0.1%
calc_scenario(c, name, vacancy, rent_mult, expense_mult, rate_add) ==
    LET base_gross == c.estimated_rent * 12
        gross == Pct(base_gross, rent_mult)
        vac == Pct(gross, vacancy)
        egi == gross - vac
        mgmt == Pct(gross, c.management_fee_pct)
        opex == Pct(FixedOpex(c), expense_mult) + mgmt
        noi == egi - opex
        ds == IF rate_add > 0
              THEN calculate_monthly_payment(c.loan_amount, c.interest_rate + rate_add,
                                             c.loan_term) * 12
              ELSE c.annual_debt_service
        cf == noi - ds
    IN  [name |-> name,
         cash_flow_monthly |-> RoundDiv(cf, 12),
         cash_flow_annual |-> cf,
         dscr |-> IF ds > 0 THEN RatioRound(noi, 100, ds) ELSE Inf,
         cash_on_cash |-> IF c.total_cash_invested > 0
                          THEN RatioRound(cf, BpScale, c.total_cash_invested) ELSE 0,
         passes |-> scenario_passes(cf, noi, ds)]

\* lines 538-555: the six scenarios, in order
StressScenarios(c) ==
    << calc_scenario(c, "Vacancy Doubles", c.vacancy_rate * 2, 10000, 10000, 0),
       calc_scenario(c, "Rate +2%", c.vacancy_rate, 10000, 10000, 20),
       calc_scenario(c, "Rent -10%", c.vacancy_rate, 9000, 10000, 0),
       calc_scenario(c, "Rent -20%", c.vacancy_rate, 8000, 10000, 0),
       calc_scenario(c, "Expense Surge", c.vacancy_rate, 10000, 15000, 0),
       calc_scenario(c, "Combined Downturn", (c.vacancy_rate * 3) \div 2, 9000, 12000, 0) >>

\* _calc_break_evens, lines 574-577: minimum monthly rent
MinMonthlyRent(c, core_m) ==
    IF c.vacancy_rate < BpScale
    THEN Max(RatioRound(core_m.operating_expenses + c.annual_debt_service, BpScale,
                        (BpScale - c.vacancy_rate) * 12), 0)
    ELSE Inf

\* (mutation of MaxPurchasePrice: the price scaled by the inverse ratio)
MaxPurchasePrice_inverseRatio(c, core_m) ==
    IF c.total_cash_invested > 0 /\ c.purchase_price > 0
    THEN LET current_cf == core_m.cash_flow_before_tax
             denom == 25 * (core_m.noi - current_cf) + 2 * c.total_cash_invested
         IN  IF 25 * current_cf > 2 * c.total_cash_invested
             THEN Pct(c.purchase_price, 15000)
             ELSE IF core_m.noi > 0
             THEN IF denom > 0 /\ denom < 2 * 25 * core_m.noi
                  THEN Max(RatioRound(c.purchase_price, denom, 25 * core_m.noi), 0)
                  ELSE IF denom > 0 THEN 2 * c.purchase_price ELSE c.purchase_price
             ELSE 0
    ELSE 0

\* _calc_break_evens, lines 584-597: approximate maximum purchase price.
\* needed_cf = 0.08 * total_cash_invested is kept exact by comparing and
\* dividing in units of 1/25 of a cent (0.08 = 2/25).
MaxPurchasePrice(c, core_m) ==
    IF c.total_cash_invested > 0 /\ c.purchase_price > 0
    THEN LET current_cf == core_m.cash_flow_before_tax
             denom == 25 * (core_m.noi - current_cf) + 2 * c.total_cash_invested
         IN  IF 25 * current_cf > 2 * c.total_cash_invested
             THEN Pct(c.purchase_price, 15000)
             ELSE IF core_m.noi > 0
             THEN IF denom > 0 /\ 25 * core_m.noi < 2 * denom
                  THEN Max(RatioRound(c.purchase_price, 25 * core_m.noi, denom), 0)
                  ELSE IF denom > 0 THEN 2 * c.purchase_price ELSE c.purchase_price
             ELSE 0
    ELSE 0

\* (mutation of MaxVacancyRate: v = 1 - DS / gross, the operating expenses left out)
MaxVacancyRate_noOpex(c, core_m) ==
    LET gross == c.estimated_rent * 12
        ds == c.annual_debt_service
    IN  IF gross > 0
        THEN Max(0, Min(RatioRound(gross - ds, BpScale, gross), BpScale))
        ELSE 0

\* _calc_break_evens, lines 604-615: maximum vacancy rate, in basis points
MaxVacancyRate(c, core_m) ==
    LET gross == c.estimated_rent * 12
        ds == c.annual_debt_service
        opex == core_m.operating_expenses
    IN  IF gross > 0
        THEN Max(0, Min(RatioRound(gross - (ds + opex), BpScale, gross), BpScale))
        ELSE 0

----------------------------------------------------------------------------
(* Tax analysis, lines 470-490 *)

\* (mutation of calculate_tax_analysis: the tax savings of a paper loss left
\* out of the after-tax cash flow)
calculate_tax_analysis_noSavings(c, core_m) ==
    LET interest_yr1 == IF Len(c.amortization) > 0 THEN c.amortization[1].interest_paid ELSE 0
        taxable_income == core_m.noi - c.annual_depreciation - interest_yr1
        paper_loss == Min(taxable_income, 0)
        tax_owed == IF taxable_income > 0 THEN Pct(taxable_income, c.marginal_tax_rate) ELSE 0
    IN  [annual_depreciation |-> c.annual_depreciation,
         depreciable_basis |-> c.depreciable_basis,
         mortgage_interest_year1 |-> interest_yr1,
         noi |-> core_m.noi,
         taxable_income |-> taxable_income,
         paper_loss |-> paper_loss,
         tax_savings |-> 0,
         effective_cash_flow_after_tax |-> core_m.cash_flow_before_tax - tax_owed,
         marginal_tax_rate |-> c.marginal_tax_rate]

\* InvestmentCalculator.calculate_tax_analysis
calculate_tax_analysis(c, core_m) ==
    LET interest_yr1 == IF Len(c.amortization) > 0 THEN c.amortization[1].interest_paid ELSE 0
        taxable_income == core_m.noi - c.annual_depreciation - interest_yr1
        paper_loss == Min(taxable_income, 0)
        tax_savings == IF paper_loss < 0 THEN Pct(Abs(paper_loss), c.marginal_tax_rate) ELSE 0
        tax_owed == IF taxable_income > 0 THEN Pct(taxable_income, c.marginal_tax_rate) ELSE 0
        cf_after_tax == core_m.cash_flow_before_tax - tax_owed + tax_savings
    IN  [annual_depreciation |-> c.annual_depreciation,
         depreciable_basis |-> c.depreciable_basis,
         mortgage_interest_year1 |-> interest_yr1,
         noi |-> core_m.noi,
         taxable_income |-> taxable_income,
         paper_loss |-> paper_loss,
         tax_savings |-> tax_savings,
         effective_cash_flow_after_tax |-> cf_after_tax,
         marginal_tax_rate |-> c.marginal_tax_rate]

\* what calculate_irr returns for the series of the projection, as
\* round(irr * 100, 2): None, 0%, 8%
IrrOutcomes == {NoneResult, RateResult(0), RateResult(800)}

\* MultiYearProjection as returned: the projection with irr = the outcome of
\* calculate_irr on its cash_flows (lines 383-384, 398)
ProjectionResult(p, irr) ==
    [f \in DOMAIN p \cup {"irr"} |-> IF f = "irr" THEN irr ELSE p[f]]

----------------------------------------------------------------------------
(* Comparable analysis, lines 645-734.  A listing is [price, sqft]; prices  *)
(* per square foot are in cents.                                            *)

\* what a listing fetch can do: raise, or return listings
Raises == [raises |-> TRUE, listings |-> <<>>]

Returns(listings) == [raises |-> FALSE, listings |-> listings]

\* ComparableAnalysis(): the empty result
ComparableAnalysis ==
    [sale_comps |-> <<>>, rental_comps |-> <<>>,
     median_sale_price_sqft |-> {}, median_rent_sqft |-> {},
     subject_price_sqft |-> {}, subject_rent_sqft |-> {},
     price_vs_market |-> {}, rent_vs_market |-> {}]

\* lines 665-678 and 686-699: the CompProperty of every listing with a price and
\* a size, in order; none when the fetch raised
RECURSIVE CompsOf(_)
CompsOf(fetched) ==
    IF fetched.raises \/ fetched.listings = <<>> THEN <<>>
    ELSE LET item == Head(fetched.listings)
             rest == CompsOf(Returns(Tail(fetched.listings)))
         IN  IF item.price # 0 /\ item.sqft # 0
             THEN <<[price |-> item.price, sqft |-> item.sqft,
                     price_per_sqft |-> RoundDiv(item.price, item.sqft)]>> \o rest
             ELSE rest

\* statistics.median of the price_per_sqft of a non-empty list of comps
Median(cs) ==
    LET n == Len(cs)
        kth(k) == CHOOSE v \in {cs[i].price_per_sqft : i \in 1..n} :
                      /\ Cardinality({i \in 1..n : cs[i].price_per_sqft < v}) < k
                      /\ Cardinality({i \in 1..n : cs[i].price_per_sqft <= v}) >= k
    IN  IF n % 2 = 1 THEN kth((n + 1) \div 2)
        ELSE RoundDiv(kth(n \div 2) + kth(n \div 2 + 1), 2)

\* lines 715-732: "above" | "below" | "at" against the median, None without both
VsMarket(subject, median) ==
    IF subject = {} \/ median = {} \/ subject = {0} \/ median = {0} THEN {}
    ELSE IF ValueOf(subject) * 100 > ValueOf(median) * 105 THEN {"above"}
    ELSE IF ValueOf(subject) * 100 < ValueOf(median) * 95 THEN {"below"}
    ELSE {"at"}

\* (mutation of build_comparable_analysis: one try block around both fetches,
\* so that a failed sale fetch leaves the rental comps empty too)
build_comparable_analysis_oneTry(c, sqft, sale_fetch, rental_fetch) ==
    LET sale_comps == CompsOf(sale_fetch)
        rental_comps == IF sale_fetch.raises THEN <<>> ELSE CompsOf(rental_fetch)
    IN  [ComparableAnalysis EXCEPT !.sale_comps = sale_comps, !.rental_comps = rental_comps]

\* InvestmentCalculator.build_comparable_analysis
build_comparable_analysis(c, sqft, sale_fetch, rental_fetch) ==
    LET sale_comps == CompsOf(sale_fetch)
        rental_comps == CompsOf(rental_fetch)
        median_sale == IF sale_comps # <<>> THEN {Median(sale_comps)} ELSE {}
        median_rent == IF rental_comps # <<>> THEN {Median(rental_comps)} ELSE {}
        has_sqft == sqft # {} /\ ValueOf(sqft) > 0
        subject_price == IF has_sqft THEN {RoundDiv(c.purchase_price, ValueOf(sqft))} ELSE {}
        subject_rent == IF has_sqft THEN {RoundDiv(c.estimated_rent, ValueOf(sqft))} ELSE {}
    IN  [sale_comps |-> sale_comps,
         rental_comps |-> rental_comps,
         median_sale_price_sqft |-> median_sale,
         median_rent_sqft |-> median_rent,
         subject_price_sqft |-> subject_price,
         subject_rent_sqft |-> subject_rent,
         price_vs_market |-> VsMarket(subject_price, median_sale),
         rent_vs_market |-> VsMarket(subject_rent, median_rent)]

\* the sqft of the property data: None or 1000
SqftInputs == {{}, {1000}}

\* the sale listings fetch: it raises, or returns listings (one without a price)
SaleFetchOutcomes ==
    {Raises, Returns(<<[price |-> 1400000, sqft |-> 1000], [price |-> 0, sqft |-> 900]>>)}

\* the rental listings fetch: it raises, or returns listings
RentalFetchOutcomes ==
    {Raises, Returns(<<[price |-> 120000, sqft |-> 1000], [price |-> 90000, sqft |-> 900]>>)}

----------------------------------------------------------------------------
(* Strategy scoring, lines 738-986.  Component scores before rounding are  *)
(* held in thousandths of a point, weighted totals in units of             *)
(* 1/TotalUnit of a point, reported scores and components in tenths        *)
(* (round(x, 1)).  projection.irr is a percentage in hundredths.           *)

\* 100 points, in thousandths
ScoreFull == 100000

\* one point of a weighted total: thousandths times weights in percent
TotalUnit == 100000

\* (mutation of Score: max(0, .) left out)
Score_noFloor(x, full) ==
    IF x >= full THEN ScoreFull ELSE RatioRound(x, ScoreFull, full)

\* min(100, max(0, x / full * 100)), in thousandths of a point (full > 0)
Score(x, full) ==
    IF x <= 0 THEN 0
    ELSE IF x >= full THEN ScoreFull
    ELSE RatioRound(x, ScoreFull, full)

\* round(x, 1) of a component score
Round1(x) == RoundDiv(x, 100)

\* proj.irr or 0
IrrOrZero(irr) == IF irr.kind = "rate" THEN irr.rate ELSE 0

\* InvestmentCalculator._to_grade
to_grade(score) ==
    IF score >= 95 * TotalUnit THEN "A+"
    ELSE IF score >= 90 * TotalUnit THEN "A"
    ELSE IF score >= 85 * TotalUnit THEN "A-"
    ELSE IF score >= 80 * TotalUnit THEN "B+"
    ELSE IF score >= 75 * TotalUnit THEN "B"
    ELSE IF score >= 70 * TotalUnit THEN "B-"
    ELSE IF score >= 65 * TotalUnit THEN "C+"
    ELSE IF score >= 60 * TotalUnit THEN "C"
    ELSE IF score >= 55 * TotalUnit THEN "C-"
    ELSE IF score >= 50 * TotalUnit THEN "D+"
    ELSE IF score >= 45 * TotalUnit THEN "D"
    ELSE IF score >= 40 * TotalUnit THEN "D-"
    ELSE "F"

\* (mutation of StrategyScore: the grade taken from the rounded score)
StrategyScore_gradeOfScore(strategy, total, components) ==
    [strategy |-> strategy,
     score |-> RoundDiv(Min(total, 100 * TotalUnit), 10000),
     grade |-> to_grade(RoundDiv(Min(total, 100 * TotalUnit), 10000) * 10000),
     component_scores |-> [i \in 1..Len(components) |-> Round1(components[i])],
     total |-> total]

\* the StrategyScore every scorer returns: score = round(min(total, 100), 1),
\* grade = _to_grade(total), the components rounded to one decimal.  total is
\* the scorer's local of that name, kept for reference.
StrategyScore(strategy, total, components) ==
    [strategy |-> strategy,
     score |-> RoundDiv(Min(total, 100 * TotalUnit), 10000),
     grade |-> to_grade(total),
     component_scores |-> [i \in 1..Len(components) |-> Round1(components[i])],
     total |-> total]

\* max(0, 100 - risk.overall_risk_score), lines 788 and 941
RiskComponent(risk_a) == Max(0, ScoreFull - risk_a.overall_risk_score * 100)

\* (core.dscr - 0.5) / 1.0 * 100, clamped, lines 786 and 862
DscrComponent(core_m) == Score(core_m.dscr - 50, 100)

\* _score_rental: Cash-on-Cash, Cap Rate, DSCR, Cash Flow, IRR, Risk
score_rental(c, core_m, proj, risk_a) ==
    LET coc_score == Score(core_m.cash_on_cash_return, 800)
        cap_score == Score(core_m.cap_rate, 600)
        dscr_score == DscrComponent(core_m)
        cf_score == Score(core_m.cash_flow_before_tax, 12 * 20000)
        irr_score == Score(IrrOrZero(proj.irr), 1500)
        risk_score == RiskComponent(risk_a)
        total == coc_score * 25 + cap_score * 20 + dscr_score * 20
                 + cf_score * 15 + irr_score * 10 + risk_score * 10
    IN  StrategyScore("rental", total,
            <<coc_score, cap_score, dscr_score, cf_score, irr_score, risk_score>>)

\* _score_flip: Profit Margin, ROI
score_flip(c, core_m) ==
    LET arv_estimate == Pct(c.purchase_price, BpScale + c.appreciation_rate)
        profit == arv_estimate - c.purchase_price
        margin == IF c.purchase_price > 0
                  THEN RatioRound(profit, BpScale, c.purchase_price) ELSE 0
        margin_score == Score(margin, 2000)
        roi_score == Score(margin, 1500)
        total == margin_score * 60 + roi_score * 40
    IN  StrategyScore("flip", total, <<margin_score, roi_score>>)

\* _score_brrrr: Rental Return, Equity Extraction, DSCR
score_brrrr(c, core_m, proj) ==
    LET yr1_value == Pct(c.purchase_price, BpScale + c.appreciation_rate)
        refi_loan == Pct(yr1_value, 7500)
        equity_extraction == refi_loan - c.loan_amount
        rental_score == Score(core_m.cash_on_cash_return, 1000)
        extraction_score == IF c.total_cash_invested > 0
                            THEN Score(equity_extraction, c.total_cash_invested)
                            ELSE 0
        dscr_score == DscrComponent(core_m)
        total == rental_score * 40 + extraction_score * 35 + dscr_score * 25
    IN  StrategyScore("brrrr", total, <<rental_score, extraction_score, dscr_score>>)

\* _score_house_hack: Rental Coverage, Cost Reduction
score_house_hack(c, core_m) ==
    LET total_payment == Get(c.loan_details, "total_monthly_payment", 0)
        personal_cost_x2 == 2 * total_payment - c.estimated_rent
        coverage_score == IF total_payment > 0
                          THEN Score(c.estimated_rent, total_payment) ELSE 0
        cost_score == IF total_payment > 0
                      THEN Score(2 * total_payment - personal_cost_x2, total_payment)
                      ELSE 0
        total == coverage_score * 60 + cost_score * 40
    IN  StrategyScore("house_hack", total, <<coverage_score, cost_score>>)

\* _score_long_term: 10Y IRR, Net Equity, Appreciation, Risk, and the
\* cash-flow penalty on the total
score_long_term(c, core_m, proj, risk_a) ==
    LET irr_score == Score(IrrOrZero(proj.irr), 1200)
        yr10 == IF Len(proj.years) >= 10 THEN proj.years[10]
                ELSE proj.years[Len(proj.years)]
        cumulative_cf ==
            SumSeq([y \in 1..Min(10, Len(proj.years)) |-> proj.years[y].cash_flow_before_tax])
        net_equity == yr10.equity + cumulative_cf
        equity_score == IF Len(proj.years) > 0 /\ c.total_cash_invested > 0
                        THEN Score(net_equity, 5 * c.total_cash_invested)
                        ELSE 0
        app_score == Score(c.appreciation_rate, 500)
        risk_score == RiskComponent(risk_a)
        annual_loss_ratio == RatioRound(Abs(core_m.cash_flow_before_tax), BpScale,
                                        Max(c.total_cash_invested, 100))
        cf_penalty == IF core_m.cash_flow_before_tax < 0
                      THEN Max(1000, BpScale - annual_loss_ratio)
                      ELSE BpScale
        raw_total == irr_score * 35 + equity_score * 30 + app_score * 20 + risk_score * 15
        total == MulDivNear(raw_total, cf_penalty, BpScale)
    IN  StrategyScore("long_term_appreciation", total,
            <<irr_score, equity_score, app_score, risk_score>>)

\* InvestmentCalculator.score_all_strategies
score_all_strategies(c, core_m, proj, risk_a) ==
    << score_rental(c, core_m, proj, risk_a),
       score_flip(c, core_m),
       score_brrrr(c, core_m, proj),
       score_house_hack(c, core_m),
       score_long_term(c, core_m, proj, risk_a) >>

\* (mutation of best_strategy: the last of the strategies with the maximum score)
best_strategy_last(scores) ==
    IF Len(scores) = 0 THEN Unset
    ELSE LET top == {i \in 1..Len(scores) :
                        \A j \in 1..Len(scores) : scores[j].score <= scores[i].score}
         IN  scores[CHOOSE i \in top : \A j \in top : j <= i]

\* analyze_property line 1219: max(strategy_scores, key=lambda s: s.score),
\* which keeps the first of the entries with the maximum score
best_strategy_of(scores) ==
    IF Len(scores) = 0 THEN Unset
    ELSE LET top == {i \in 1..Len(scores) :
                        \A j \in 1..Len(scores) : scores[j].score <= scores[i].score}
         IN  scores[CHOOSE i \in top : \A j \in top : i <= j]

\* _score_long_term, lines 961-967: the pro or con about the projected IRR,
\* chosen from irr_10 = proj.irr or 0
long_term_irr_note(irr) ==
    LET irr_10 == IrrOrZero(irr)
    IN  IF irr_10 >= 1000 THEN [pro |-> TRUE, text |-> "Strong projected IRR"]
        ELSE IF irr_10 > 0 THEN [pro |-> FALSE, text |-> "Moderate projected IRR"]
        ELSE [pro |-> FALSE, text |-> "Negative or undefined IRR"]

\* generate_executive_summary, lines 1015-1019: the IRR line of the summary,
\* present only when projection.irr is not None
summary_irr_line(proj) ==
    IF proj.irr.kind = "rate"
    THEN << [text |-> "Projected IRR", irr |-> RoundDiv(proj.irr.rate, 10)] >>
    ELSE << >>

----------------------------------------------------------------------------
(* The analysis pipeline of PropertyAnalyzer.analyze_property, lines        *)
(* 1166-1241: loan details, calculator, core metrics, projection, tax       *)
(* analysis, stress tests with the break-even search, comparables, strategy *)
(* scores and the returned AnalysisResult.                                  *)

RateLo == 1

RateHi == 250

\* (mutation of MaxRateSteps: the loop written as range(49))
MaxRateSteps_short == 50 - 1

MaxRateSteps == 50

\* line 1203: core = calc.calculate_core_metrics()
CalculateCoreMetrics ==
    /\ calc_pc = "core"
    /\ core' = calculate_core_metrics(calc)
    /\ calc_pc' = "projection"
    /\ UNCHANGED <<calc, projection, scenarios, lo, hi, fmr_steps, max_rate, risk, report_vars>>

\* line 1204: projection = calc.generate_multi_year_projection()
GenerateProjection ==
    /\ calc_pc = "projection"
    /\ \E irr \in IrrOutcomes :
          projection' = ProjectionResult(generate_multi_year_projection(calc), irr)
    /\ calc_pc' = "tax"
    /\ UNCHANGED <<calc, core, scenarios, lo, hi, fmr_steps, max_rate, risk, report_vars>>

\* line 1205: tax = calc.calculate_tax_analysis(core)
CalculateTaxAnalysis ==
    /\ calc_pc = "tax"
    /\ tax' = calculate_tax_analysis(calc, core)
    /\ calc_pc' = "stress"
    /\ UNCHANGED <<calc, core, projection, scenarios, lo, hi, fmr_steps, max_rate, risk>>
    /\ UNCHANGED <<comps, fetch_log, strategy_scores, best_strategy, result>>

\* (mutation of RunStressTests: the rate of the "Rate +2%" scenario is kept
\* in the calculator)
RunStressTests_keepsPerturbedRate ==
    /\ calc_pc = "stress"
    /\ scenarios' = StressScenarios(calc)
    /\ calc' = [calc EXCEPT !.interest_rate = @ + 20]
    /\ calc_pc' = "max_rate_entry"
    /\ UNCHANGED <<core, projection, lo, hi, fmr_steps, max_rate, risk, report_vars>>

\* line 1206, run_stress_tests lines 494-555: the six scenarios
RunStressTests ==
    /\ calc_pc = "stress"
    /\ scenarios' = StressScenarios(calc)
    /\ calc_pc' = "max_rate_entry"
    /\ UNCHANGED <<calc, core, projection, lo, hi, fmr_steps, max_rate, risk, report_vars>>

\* _find_max_rate, lines 626-630: the guard and the initial bracket
FindMaxRateEntry ==
    /\ calc_pc = "max_rate_entry"
    /\ IF core.noi <= 0 \/ calc.loan_amount <= 0
       THEN /\ max_rate' = 0
            /\ calc_pc' = "break_evens"
            /\ UNCHANGED <<lo, hi, fmr_steps>>
       ELSE /\ lo' = RateLo
            /\ hi' = RateHi
            /\ fmr_steps' = 0
            /\ calc_pc' = "max_rate_loop"
            /\ UNCHANGED max_rate
    /\ UNCHANGED <<calc, core, projection, scenarios, risk, report_vars>>

\* lines 633-639: the bracket after one bisection step
Bisect(c, noi, l, h) ==
    LET mid == (l + h) \div 2
        ds == calculate_monthly_payment(c.loan_amount, mid, c.loan_term) * 12
    IN  IF ds < noi THEN <<mid, h>> ELSE <<l, mid>>

\* _find_max_rate, lines 632-641: one pass of the loop, and the return after
\* the last
FindMaxRateStep ==
    /\ calc_pc = "max_rate_loop"
    /\ fmr_steps < MaxRateSteps
    /\ LET b == Bisect(calc, core.noi, lo, hi)
       IN  /\ lo' = b[1]
           /\ hi' = b[2]
           /\ fmr_steps' = fmr_steps + 1
           /\ IF fmr_steps + 1 = MaxRateSteps
              THEN /\ max_rate' = b[1]
                   /\ calc_pc' = "break_evens"
              ELSE /\ calc_pc' = "max_rate_loop"
                   /\ UNCHANGED max_rate
    /\ UNCHANGED <<calc, core, projection, scenarios, risk, report_vars>>

\* (mutation of overall_risk_score: the passing scenarios counted)
overall_risk_score_passing(scen) ==
    LET pass_count == Cardinality({i \in 1..Len(scen) : scen[i].passes})
    IN  IF Len(scen) > 0 THEN RoundDiv(pass_count * 1000, Len(scen)) ELSE 0

\* run_stress_tests lines 560-567: the share of failing scenarios, in tenths
\* of a percent (round(risk_score, 1))
overall_risk_score(scen) ==
    LET fail_count == Cardinality({i \in 1..Len(scen) : ~scen[i].passes})
    IN  IF Len(scen) > 0 THEN RoundDiv(fail_count * 1000, Len(scen)) ELSE 0

\* _calc_break_evens lines 617-622 and run_stress_tests lines 560-568
FinishRiskAnalysis ==
    /\ calc_pc = "break_evens"
    /\ risk' = [scenarios |-> scenarios,
                break_even |->
                    [min_monthly_rent |-> MinMonthlyRent(calc, core),
                     max_purchase_price |-> MaxPurchasePrice(calc, core),
                     max_interest_rate |-> max_rate * 10,
                     max_vacancy_rate |-> MaxVacancyRate(calc, core)],
                overall_risk_score |-> overall_risk_score(scenarios)]
    /\ calc_pc' = "comps"
    /\ UNCHANGED <<calc, core, projection, scenarios, lo, hi, fmr_steps, max_rate, report_vars>>

\* lines 1208-1216: the optional comparables.  zip_code, sqft and what the two
\* listing fetches do are given by the property data and the RentCast client.
FetchComparables ==
    /\ calc_pc = "comps"
    /\ \E zip_code \in (IF looked_up = Unset THEN BOOLEAN ELSE {looked_up.zip_code}),
          sqft \in (IF looked_up = Unset THEN SqftInputs ELSE {looked_up.sqft}),
          sale_fetch \in SaleFetchOutcomes, rental_fetch \in RentalFetchOutcomes :
          IF zip_code
          THEN /\ comps' = build_comparable_analysis(calc, sqft, sale_fetch, rental_fetch)
               /\ fetch_log' = << [call |-> "get_sale_listings", raised |-> sale_fetch.raises],
                                  [call |-> "get_rental_listings", raised |-> rental_fetch.raises] >>
          ELSE /\ comps' = ComparableAnalysis
               /\ fetch_log' = <<>>
    /\ calc_pc' = "scores"
    /\ UNCHANGED <<calc, core, projection, scenarios, lo, hi, fmr_steps, max_rate, risk>>
    /\ UNCHANGED <<tax, strategy_scores, best_strategy, result>>

\* lines 1218-1220: the five scores and the best of them
ScoreStrategies ==
    /\ calc_pc = "scores"
    /\ strategy_scores' = score_all_strategies(calc, core, projection, risk)
    /\ best_strategy' = best_strategy_of(score_all_strategies(calc, core, projection, risk))
    /\ calc_pc' = "result"
    /\ UNCHANGED <<calc, core, projection, scenarios, lo, hi, fmr_steps, max_rate, risk>>
    /\ UNCHANGED <<tax, comps, fetch_log, result>>

\* lines 1225-1241: the FullAnalysisResult is returned
ReturnResult ==
    /\ calc_pc = "result"
    /\ result' = [core_metrics |-> core,
                  projection |-> projection,
                  tax_analysis |-> tax,
                  risk_analysis |-> risk,
                  comparables |-> comps,
                  strategy_scores |-> strategy_scores,
                  best_strategy |-> best_strategy]
    /\ calc_pc' = "done"
    /\ UNCHANGED <<calc, core, projection, scenarios, lo, hi, fmr_steps, max_rate, risk>>
    /\ UNCHANGED <<tax, comps, fetch_log, strategy_scores, best_strategy>>

----------------------------------------------------------------------------
(* Inputs of the analysis *)

MaxHoldYears == 31

PriceInputs == {1500000}

RentInputs == {10000, 70000, 130000}

InterestRateInputs == {65, 90}

TermInputs == {1, 2}

HoldYearsInputs == {0, 1, 2, ProjectionYears, MaxHoldYears}

ManagementFeeInputs == {0, 1000}

\* appreciation_rate, in basis points: the default 4% and 18.32%
AppreciationInputs == {400, 1832}

\* the externally supplied amortization schedule: none, or one entry per loan year
AmortizationInputs(loan_amount, years) ==
    { <<>>,
      [y \in 1..years |-> [interest_paid |-> Pct(loan_amount, 600) \div y,
                           remaining_balance |-> (loan_amount * (years - y)) \div years]] }

\* loan_details maps handed to the constructor directly: an empty map, an
\* all-cash purchase (no loan, no debt service), a loan with nothing paid down
\* (no cash invested)
EdgeLoanDetails ==
    << <<>>,
       [loan_amount |-> 0, monthly_principal_interest |-> 0, down_payment |-> 1500000,
        upfront_costs |-> 0, total_monthly_payment |-> 0, loan_term_years |-> 2],
       [loan_amount |-> 1200000, monthly_principal_interest |-> 53456, down_payment |-> 0,
        upfront_costs |-> 0, total_monthly_payment |-> 55956, loan_term_years |-> 2] >>

EdgePriceInputs == {0, 1500000}

EdgeRentInputs == {0, 70000}

\* vacancy_rate: the default 5%, and 100% (no effective income)
EdgeVacancyInputs == {500, 10000}

\* appreciation_rate: the default 4%, and 20%
EdgeAppreciationInputs == {400, 2000}

\* the worked scenario: $200,000, rent $1,500, 20% down, monthly P&I $1,011.36
\* over 30 years, property tax $3,000, insurance $1,000, no PMI or HOA
WorkedScenario ==
    InvestmentCalculator(20000000, 150000,
        [loan_amount |-> 16000000, monthly_principal_interest |-> 101136,
         down_payment |-> 4000000, upfront_costs |-> 0,
         property_tax_annual |-> 300000, insurance_annual |-> 100000,
         pmi_monthly |-> 0, hoa_monthly |-> 0, loan_term_years |-> 30,
         total_monthly_payment |-> 101136 + 25000 + 8333],
        <<>>, DefaultAssumptions)

\* an analysis through calculate_loan_details
InitLoanCalc ==
    \E price \in PriceInputs, rent \in RentInputs, rate \in InterestRateInputs,
       term \in TermInputs, hold \in HoldYearsInputs, fee \in ManagementFeeInputs,
       appreciation \in AppreciationInputs :
        LET loan_details == calculate_loan_details(price, "conventional", {}, rate, term,
                                                   {}, {}, 0)
        IN  \E amortization \in AmortizationInputs(loan_details.loan_amount, term) :
                calc = InvestmentCalculator(price, rent, loan_details, amortization,
                           [DefaultAssumptions EXCEPT !.management_fee_pct = fee,
                                                      !.hold_years = hold,
                                                      !.appreciation_rate = appreciation])

\* a calculator constructed directly, with zero price, rent, cash invested or
\* debt service
InitEdgeCalc ==
    \E price \in EdgePriceInputs, rent \in EdgeRentInputs, vacancy \in EdgeVacancyInputs,
       appreciation \in EdgeAppreciationInputs, i \in 1..Len(EdgeLoanDetails) :
        calc = InvestmentCalculator(price, rent, EdgeLoanDetails[i], <<>>,
                   [DefaultAssumptions EXCEPT !.vacancy_rate = vacancy,
                                              !.appreciation_rate = appreciation])

InitCalc ==
    \/ InitLoanCalc
    \/ InitEdgeCalc
    \/ calc = WorkedScenario

----------------------------------------------------------------------------
(* PropertyAnalyzer.analyze_property up to the constructed calculator,      *)
(* lines 1054-1200.  What the URL parser and the RentCast client return is  *)
(* given from outside; every client call is logged with whether it raised. *)

\* a or b or ... or 0 over dict.get results: the first value that is neither
\* None nor 0
RECURSIVE FirstTruthy(_)
FirstTruthy(opts) ==
    IF Len(opts) = 0 THEN 0
    ELSE IF ~IsNone(Head(opts)) /\ ValueOf(Head(opts)) # 0 THEN ValueOf(Head(opts))
    ELSE FirstTruthy(Tail(opts))

\* the keys of property_data that analyze_property reads, None when absent
PropertyData(price, estimated_value, lastSalePrice, rent, estimated_rent, rentEstimate) ==
    [price |-> price, estimated_value |-> estimated_value, lastSalePrice |-> lastSalePrice,
     rent |-> rent, estimated_rent |-> estimated_rent, rentEstimate |-> rentEstimate]

\* the analyze_property arguments that vary: whether the URL parses, the
\* optional price, rent, property tax and insurance, and the interest rate
AnalysisRequest(url_parses, purchase_price, estimated_rent, interest_rate, property_tax_annual, insurance_annual) ==
    [url_parses |-> url_parses, purchase_price |-> purchase_price,
     estimated_rent |-> estimated_rent, interest_rate |-> interest_rate,
     loan_term_years |-> 2,
     property_tax_annual |-> property_tax_annual, insurance_annual |-> insurance_annual]

RequestPriceInputs == {{}, {0}, {1500000}}

RequestRentInputs == {{}, {70000}}

\* interest rate with the property tax and insurance the caller supplies:
\* the defaults, and 9% with $300 and $90 a year
RequestTermInputs ==
    { [interest_rate |-> 65, property_tax_annual |-> {}, insurance_annual |-> {}],
      [interest_rate |-> 90, property_tax_annual |-> {30000}, insurance_annual |-> {9000}] }

\* search_properties_by_address: raises, finds nothing, or finds one property
\* (listed with price, rent, zip code and area; or with a last sale price
\* only; or without any price)
SearchOutcomes ==
    { [raises |-> TRUE, found |-> FALSE, property_data |-> PropertyData({}, {}, {}, {}, {}, {}),
       zipCode |-> FALSE, squareFootage |-> {}],
      [raises |-> FALSE, found |-> FALSE, property_data |-> PropertyData({}, {}, {}, {}, {}, {}),
       zipCode |-> FALSE, squareFootage |-> {}],
      [raises |-> FALSE, found |-> TRUE,
       property_data |-> PropertyData({1500000}, {}, {}, {}, {}, {70000}),
       zipCode |-> TRUE, squareFootage |-> {1000}],
      [raises |-> FALSE, found |-> TRUE,
       property_data |-> PropertyData({}, {}, {1500000}, {}, {}, {}),
       zipCode |-> FALSE, squareFootage |-> {}],
      [raises |-> FALSE, found |-> TRUE,
       property_data |-> PropertyData({}, {}, {}, {}, {}, {}),
       zipCode |-> TRUE, squareFootage |-> {}] }

\* get_property_valuation and get_rent_estimate: the call raises, or returns
\* a map with or without the key that is read
ValueFetchOutcomes ==
    { [raises |-> TRUE, value |-> {}],
      [raises |-> FALSE, value |-> {}],
      [raises |-> FALSE, value |-> {1500000}] }

RentFetchOutcomes ==
    { [raises |-> TRUE, value |-> {}],
      [raises |-> FALSE, value |-> {}],
      [raises |-> FALSE, value |-> {70000}] }

\* dict.get(key, default) of a fetched map: the default only when the key is absent
GetOr(fetched_value, default) == IF IsNone(fetched_value) THEN default ELSE fetched_value

\* one more client call in the log
Called(name, raised) == Append(calls, [call |-> name, raised |-> raised])

\* LoanCalculator.generate_amortization_schedule(loan_amount, annual_rate,
\* years): one entry per loan year
generate_amortization_schedule(loan_amount, annual_rate, years) ==
    CHOOSE a \in AmortizationInputs(loan_amount, years) : Len(a) = years

\* return {"error": ...}
ErrorResult(message) == [error |-> message]

\* lines 1080-1085: the URL is parsed; no address, no analysis
ParsePropertyUrl ==
    /\ calc_pc = "parse_url"
    /\ IF request.url_parses
       THEN /\ calc_pc' = "search"
            /\ UNCHANGED result
       ELSE /\ result' = ErrorResult("Could not parse property URL")
            /\ calc_pc' = "error"
    /\ UNCHANGED <<calc, looked_up, calls>>

\* lines 1121-1138 and the except of line 1162: price and rent are settled
\* from the arguments and property_data; without a price the analysis ends
SettlePriceAndRent(property_data, zip_code, sqft, log) ==
    LET purchase_price ==
            IF IsNone(request.purchase_price)
            THEN FirstTruthy(<<property_data.price, property_data.estimated_value,
                               property_data.lastSalePrice>>)
            ELSE ValueOf(request.purchase_price)
        estimated_rent ==
            IF IsNone(request.estimated_rent)
            THEN FirstTruthy(<<property_data.rent, property_data.estimated_rent,
                               property_data.rentEstimate>>)
            ELSE ValueOf(request.estimated_rent)
    IN  /\ calls' = log
        /\ IF purchase_price = 0
           THEN /\ result' = ErrorResult("Could not determine property price")
                /\ calc_pc' = "error"
                /\ UNCHANGED looked_up
           ELSE /\ looked_up' = [property_data |-> property_data, zip_code |-> zip_code,
                               sqft |-> sqft, purchase_price |-> purchase_price,
                               estimated_rent |-> estimated_rent, market_stats |-> {}]
                /\ calc_pc' = IF estimated_rent = 0 THEN "rent_estimate" ELSE "market_statistics"
                /\ UNCHANGED result

\* lines 1097-1119: the primary lookup; an exception ends the analysis with
\* an error result (line 1162)
SearchProperties ==
    /\ calc_pc = "search"
    /\ \E found \in SearchOutcomes :
          IF found.raises
          THEN /\ calls' = Called("search_properties_by_address", TRUE)
               /\ result' = ErrorResult("Error fetching property data")
               /\ calc_pc' = "error"
               /\ UNCHANGED looked_up
          ELSE IF ~found.found
          THEN /\ calls' = Called("search_properties_by_address", FALSE)
               /\ calc_pc' = "valuation"
               /\ UNCHANGED <<looked_up, result>>
          ELSE SettlePriceAndRent(found.property_data, found.zipCode, found.squareFootage,
                                  Called("search_properties_by_address", FALSE))
    /\ UNCHANGED calc

\* lines 1100-1112: nothing found, so the valuation and the rent estimate are
\* fetched; either exception ends the analysis with an error result
FetchValuation ==
    /\ calc_pc = "valuation"
    /\ \E valuation_data \in ValueFetchOutcomes, rent_data \in RentFetchOutcomes :
          IF valuation_data.raises
          THEN /\ calls' = Called("get_property_valuation", TRUE)
               /\ result' = ErrorResult("Error fetching property data")
               /\ calc_pc' = "error"
               /\ UNCHANGED looked_up
          ELSE IF rent_data.raises
          THEN /\ calls' = Called("get_property_valuation", FALSE)
                           \o << [call |-> "get_rent_estimate", raised |-> TRUE] >>
               /\ result' = ErrorResult("Error fetching property data")
               /\ calc_pc' = "error"
               /\ UNCHANGED looked_up
          ELSE SettlePriceAndRent(
                   PropertyData({}, GetOr(valuation_data.value, request.purchase_price), {},
                                {}, GetOr(rent_data.value, request.estimated_rent), {}),
                   TRUE, {},
                   Called("get_property_valuation", FALSE)
                   \o << [call |-> "get_rent_estimate", raised |-> FALSE] >>)
    /\ UNCHANGED calc

\* (mutation of FetchRentEstimate: the fetch made without a try of its own, so
\* that its exception reaches the except of line 1162)
FetchRentEstimate_noInnerTry ==
    /\ calc_pc = "rent_estimate"
    /\ \E rent_data \in RentFetchOutcomes :
          /\ calls' = Called("get_rent_estimate", rent_data.raises)
          /\ IF rent_data.raises
             THEN /\ result' = ErrorResult("Error fetching property data")
                  /\ calc_pc' = "error"
                  /\ UNCHANGED looked_up
             ELSE /\ looked_up' = [looked_up EXCEPT !.estimated_rent = FirstTruthy(<<rent_data.value>>)]
                  /\ calc_pc' = "market_statistics"
                  /\ UNCHANGED result
    /\ UNCHANGED calc

\* lines 1140-1152: still no rent, so the rent estimate is fetched; an
\* exception is swallowed and the rent stays 0
FetchRentEstimate ==
    /\ calc_pc = "rent_estimate"
    /\ \E rent_data \in RentFetchOutcomes :
          /\ calls' = Called("get_rent_estimate", rent_data.raises)
          /\ looked_up' = IF rent_data.raises THEN looked_up
                        ELSE [looked_up EXCEPT !.estimated_rent = FirstTruthy(<<rent_data.value>>)]
    /\ calc_pc' = "market_statistics"
    /\ UNCHANGED <<calc, result>>

\* lines 1154-1160: the market statistics of the zip code; an exception is
\* swallowed and there are none
FetchMarketStatistics ==
    /\ calc_pc = "market_statistics"
    /\ IF looked_up.zip_code
       THEN \E raises \in BOOLEAN :
               /\ calls' = Called("get_market_statistics", raises)
               /\ looked_up' = IF raises THEN looked_up
                             ELSE [looked_up EXCEPT !.market_stats = {"statistics"}]
       ELSE UNCHANGED <<looked_up, calls>>
    /\ calc_pc' = "loan"
    /\ UNCHANGED <<calc, result>>

\* lines 1166-1200: loan details, amortization schedule and the calculator
BuildCalculator ==
    /\ calc_pc = "loan"
    /\ LET loan_details == calculate_loan_details(looked_up.purchase_price, "conventional", {},
                               request.interest_rate, request.loan_term_years,
                               request.property_tax_annual, request.insurance_annual, 0)
           amortization == generate_amortization_schedule(loan_details.loan_amount,
                               request.interest_rate, request.loan_term_years)
       IN  calc' = InvestmentCalculator(looked_up.purchase_price, looked_up.estimated_rent,
                                        loan_details, amortization, DefaultAssumptions)
    /\ calc_pc' = "core"
    /\ UNCHANGED <<looked_up, calls, result>>

\* the part of analyze_property before the analyses
NextRequest ==
    /\ \/ ParsePropertyUrl
       \/ SearchProperties
       \/ FetchValuation
       \/ FetchRentEstimate
       \/ FetchMarketStatistics
       \/ BuildCalculator
    /\ UNCHANGED <<request, analysis_vars>>

----------------------------------------------------------------------------
(* The specification of an analysis *)

IdleCalc ==
    /\ calc_pc = "core"
    /\ core = Unset
    /\ projection = Unset
    /\ scenarios = <<>>
    /\ lo = 0
    /\ hi = 0
    /\ fmr_steps = 0
    /\ max_rate = 0
    /\ risk = Unset
    /\ tax = Unset
    /\ comps = Unset
    /\ fetch_log = <<>>
    /\ strategy_scores = <<>>
    /\ best_strategy = Unset
    /\ result = Unset

NextCalc ==
    \/ CalculateCoreMetrics
    \/ GenerateProjection
    \/ CalculateTaxAnalysis
    \/ RunStressTests
    \/ FindMaxRateEntry
    \/ FindMaxRateStep
    \/ FinishRiskAnalysis
    \/ FetchComparables
    \/ ScoreStrategies
    \/ ReturnResult

\* an analysis on its own
InitAnalysis ==
    /\ InitCalc
    /\ IdleCalc
    /\ cash_flows = <<>>
    /\ r = 0
    /\ iters = 0
    /\ irr_pc = "none"
    /\ irr_result = Pending
    /\ npv = Unset
    /\ request = Unset
    /\ looked_up = Unset
    /\ calls = <<>>

\* a call of analyze_property
AnalysisRequests ==
    { AnalysisRequest(url_parses, price, rent, terms.interest_rate,
                      terms.property_tax_annual, terms.insurance_annual) :
        url_parses \in BOOLEAN, price \in RequestPriceInputs, rent \in RequestRentInputs,
        terms \in RequestTermInputs }

InitRequest ==
    /\ request \in AnalysisRequests
    /\ looked_up = Unset
    /\ calls = <<>>
    /\ calc = Unset
    /\ calc_pc = "parse_url"
    /\ core = Unset
    /\ projection = Unset
    /\ scenarios = <<>>
    /\ lo = 0
    /\ hi = 0
    /\ fmr_steps = 0
    /\ max_rate = 0
    /\ risk = Unset
    /\ tax = Unset
    /\ comps = Unset
    /\ fetch_log = <<>>
    /\ strategy_scores = <<>>
    /\ best_strategy = Unset
    /\ result = Unset
    /\ cash_flows = <<>>
    /\ r = 0
    /\ iters = 0
    /\ irr_pc = "none"
    /\ irr_result = Pending
    /\ npv = Unset

\* a step of an analysis whose calculator was constructed directly
NextAnalysis == NextCalc /\ UNCHANGED <<irr_vars, npv, request_vars>>

\* a step of a call of analyze_property
NextRequestAnalysis ==
    /\ \/ NextRequest
       \/ NextCalc /\ UNCHANGED request_vars
    /\ UNCHANGED <<irr_vars, npv>>

SpecRequest == InitRequest /\ [][NextRequestAnalysis]_vars


SpecCalc == InitAnalysis /\ [][NextAnalysis]_vars

----------------------------------------------------------------------------
(* Inputs of the solver *)

MaxLen == 3

CashValues == {-40, -26, -20, -10, 0, 1, 11, 31, 46}

CashFlowInputs == UNION {[1..n -> CashValues] : n \in 0..MaxLen}

\* a call of calculate_irr on its own
InitIrr ==
    /\ cash_flows \in CashFlowInputs
    /\ r = 0
    /\ iters = 0
    /\ irr_pc = "entry"
    /\ irr_result = Pending
    /\ calc = Unset
    /\ calc_pc = "none"
    /\ core = Unset
    /\ projection = Unset
    /\ scenarios = <<>>
    /\ lo = 0
    /\ hi = 0
    /\ fmr_steps = 0
    /\ max_rate = 0
    /\ risk = Unset
    /\ tax = Unset
    /\ comps = Unset
    /\ fetch_log = <<>>
    /\ strategy_scores = <<>>
    /\ best_strategy = Unset
    /\ result = Unset
    /\ npv = Unset
    /\ request = Unset
    /\ looked_up = Unset
    /\ calls = <<>>

NextIrr == (IrrEntry \/ IrrIterate \/ IrrVerify) /\ UNCHANGED <<calc_vars, npv, request_vars>>

SpecIrr == InitIrr /\ [][NextIrr]_vars

----------------------------------------------------------------------------
(* A call of calculate_npv on its own *)

\* discount rates in hundredths: -50%, 0, the 8% of the projection, 10%, 100%
DiscountRates == {-50, 0, 8, 10, 100}

InitNpv ==
    /\ cash_flows \in CashFlowInputs
    /\ r = 0
    /\ iters = 0
    /\ irr_pc = "none"
    /\ irr_result = Pending
    /\ calc = Unset
    /\ calc_pc = "none"
    /\ core = Unset
    /\ projection = Unset
    /\ scenarios = <<>>
    /\ lo = 0
    /\ hi = 0
    /\ fmr_steps = 0
    /\ max_rate = 0
    /\ risk = Unset
    /\ tax = Unset
    /\ comps = Unset
    /\ fetch_log = <<>>
    /\ strategy_scores = <<>>
    /\ best_strategy = Unset
    /\ result = Unset
    /\ npv = Unset
    /\ request = Unset
    /\ looked_up = Unset
    /\ calls = <<>>

\* lines 463-466: calculate_npv(cash_flows, discount_rate)
CalculateNpv ==
    /\ calc_pc = "none"
    /\ irr_pc = "none"
    /\ npv = Unset
    /\ \E discount_rate \in DiscountRates :
          npv' = [discount_rate |-> discount_rate,
                  value |-> calculate_npv(cash_flows, discount_rate)]
    /\ UNCHANGED <<irr_vars, calc_vars, request_vars>>

NextNpv == CalculateNpv

SpecNpv == InitNpv /\ [][NextNpv]_vars

----------------------------------------------------------------------------
(* A call of calculate_irr, a call of calculate_npv, an analysis or a call *)
(* of analyze_property *)

Init == InitIrr \/ InitNpv \/ InitAnalysis \/ InitRequest

Next == NextIrr \/ NextNpv \/ NextAnalysis \/ NextRequestAnalysis

Spec == Init /\ [][Next]_vars

----------------------------------------------------------------------------
(* Properties of calculate_irr *)

\* the entries after the first, read off the argument itself
LaterEntries(cfs) == [i \in 1..(Len(cfs) - 1) |-> cfs[i + 1]]

\* sum over i of e[i] * 100^(i-1) * (100 + rs)^(n-i): zero exactly when the
\* entries e[1..n], discounted at the rate rs/100, sum to zero
RECURSIVE DiscountedSum(_, _, _)
DiscountedSum(e, rs, i) ==
    IF i > Len(e) THEN 0
    ELSE e[i] * Pow(100, i - 1) * Pow(100 + rs, Len(e) - i) + DiscountedSum(e, rs, i + 1)

\* the rates r* strictly inside the clamps at which NPV(r*) is exactly zero
ExactRoots(cfs) ==
    {rs \in -98..199 : DiscountedSum(cfs, rs, 1) = 0}

\* C1: every rate calculate_irr returns, from inside the loop or after it,
\* satisfies |NPV(cash_flows, rate)| < max(1.0, 0.001 * |cash_flows[0]|);
\* otherwise the result is None.
C1_ReturnedRateWithinNpvBound ==
    (IrrReturned /\ irr_result.kind = "rate")
        => NpvWithinBound(cash_flows, irr_result.rate)

\* C2: a series that is empty, has fewer than 2 entries, or whose entries
\* after the first sum to <= 0 yields None without any Newton iteration.
C2_DegenerateSeriesIsNone ==
    (Len(cash_flows) < 2 \/ SumSeq(LaterEntries(cash_flows)) <= 0)
        => /\ irr_pc \in {"entry", "ret_guard"}
           /\ iters = 0
           /\ IrrReturned => irr_result = NoneResult

C2_Witness ==
    /\ irr_pc = "ret_guard"
    /\ Len(cash_flows) >= 2
    /\ cash_flows[1] < 0
    /\ SumSeq(LaterEntries(cash_flows)) = 0
    /\ irr_result = NoneResult

\* C3: every iterate stays inside [-0.99, 2.00], and no rate at (or within
\* the tolerance of) a clamp boundary is ever returned.
C3_IteratesClampedNoBoundaryRate ==
    /\ irr_pc \in {"loop", "verify", "ret_loop", "ret_verify"}
          => (LoClamp <= r /\ r <= HiClamp)
    /\ (IrrReturned /\ irr_result.kind = "rate")
          => /\ Abs(irr_result.rate - HiClamp) >= Tol
             /\ Abs(irr_result.rate - LoClamp) >= Tol

----------------------------------------------------------------------------
(* Termination of the two solvers *)

\* _find_max_rate has returned
FindMaxRateReturned == calc_pc \in {"break_evens", "comps", "scores", "result", "done"}

\* C5: calculate_irr terminates after at most 200 Newton iterations, and
\* _find_max_rate terminates after exactly 50 bisection steps, or after none
\* when NOI <= 0 or the loan amount is <= 0.  Each pass of a loop counts one
\* up, a loop is only ever entered again below its cap (where its next pass is
\* the one step that can be taken), and _find_max_rate returns with the count
\* at 50, or at 0 under the guard: neither loop can run unboundedly.
C5_SolversTerminateWithinCaps ==
    /\ [](/\ iters <= 200
          /\ irr_pc = "loop" => iters < 200
          /\ fmr_steps <= 50
          /\ calc_pc = "max_rate_loop" => fmr_steps < 50
          /\ FindMaxRateReturned
                => fmr_steps = IF core.noi <= 0 \/ calc.loan_amount <= 0 THEN 0 ELSE 50)
    /\ [][/\ irr_pc = "loop" => iters' = iters + 1
          /\ calc_pc = "max_rate_loop" => fmr_steps' = fmr_steps + 1]_vars

C5_Witness ==
    /\ irr_pc = "ret_verify"
    /\ iters = 200

----------------------------------------------------------------------------
(* Properties of the analysis *)

\* the stress scenario of a given name
ScenarioNamed(name) == CHOOSE sc \in {scenarios[i] : i \in 1..Len(scenarios)} : sc.name = name

\* C6: the series handed to calculate_irr has length hold_years + 1, starts
\* with the negative entry -(total_cash_invested), continues with the after-tax
\* cash flows of years 1..hold_years, and has the net sale proceeds added once,
\* into its last entry (the entries before the last are the bare cash flows and
\* the whole series sums to them plus one net sale).
C6_IrrSeriesShape ==
    projection # Unset
        => LET s == projection.cash_flows
               h == calc.hold_years
           IN  /\ Len(s) = h + 1
               /\ s[1] < 0
               /\ s[1] = -calc.total_cash_invested
               /\ \A y \in 1..(h - 1) : s[y + 1] = projection.years[y].cash_flow_after_tax
               /\ SumSeq(s) = s[1]
                               + SumSeq([y \in 1..h |-> projection.years[y].cash_flow_after_tax])
                               + projection.net_sale_proceeds

\* C7: whenever the loan amount is positive, the annual cash flow of the
\* "Rate +2%" scenario is strictly lower than the baseline pre-tax cash flow.
C7_RatePlus2StrictlyLower ==
    (Len(scenarios) > 0 /\ calc.loan_amount > 0)
        => ScenarioNamed("Rate +2%").cash_flow_annual < core.cash_flow_before_tax

\* gross * (1 - v) - operating expenses - debt service, v in basis points
CashFlowAtVacancy(c, core_m, v) ==
    LET gross == c.estimated_rent * 12
    IN  gross - Pct(gross, v) - core_m.operating_expenses - c.annual_debt_service

\* the rounding of max_vacancy_rate to 0.01% moves the cash flow by at most
\* half of 0.01% of the gross income, and the cent roundings by a cent
VacancyTolerance(c) == (c.estimated_rent * 12) \div (2 * BpScale) + 1

\* C8 (as claimed): for gross income > 0 the year-1 pre-tax cash flow
\* recomputed at v = max_vacancy_rate is approximately 0.
C8_MaxVacancyBreaksEven ==
    (calc_pc = "done" /\ calc.estimated_rent * 12 > 0)
        => Abs(CashFlowAtVacancy(calc, core, risk.break_even.max_vacancy_rate))
               <= VacancyTolerance(calc)

\* C8 (amended): for gross income > 0 that covers operating expenses plus
\* debt service, the cash flow recomputed at v = max_vacancy_rate is 0 within
\* the rounding tolerance; when it does not cover them, max_vacancy_rate is 0.
C8_MaxVacancyBreaksEvenWhenCovered ==
    (calc_pc = "done" /\ calc.estimated_rent * 12 > 0)
        => IF core.operating_expenses + calc.annual_debt_service <= calc.estimated_rent * 12
           THEN Abs(CashFlowAtVacancy(calc, core, risk.break_even.max_vacancy_rate))
                    <= VacancyTolerance(calc)
           ELSE risk.break_even.max_vacancy_rate = 0

C8_Witness ==
    /\ calc_pc = "done"
    /\ core.cash_flow_before_tax < 0
    /\ risk.break_even.max_vacancy_rate > 0
    /\ risk.break_even.max_vacancy_rate < calc.vacancy_rate

\* C9: calculate_core_metrics recomputed with estimated_rent set to
\* min_monthly_rent, everything else unchanged, gives a pre-tax cash flow of
\* approximately 0 (within a dollar), for any vacancy rate < 1.
C9_MinRentBreaksEven ==
    (calc_pc = "done" /\ calc.vacancy_rate < BpScale)
        => Abs(calculate_core_metrics(
                   [calc EXCEPT !.estimated_rent = risk.break_even.min_monthly_rent]
               ).cash_flow_before_tax) <= 100

\* 12 * monthly_payment(loan, rate, term)
DebtServiceAt(c, rate) == calculate_monthly_payment(c.loan_amount, rate, c.loan_term) * 12

\* C10: when NOI > 0 and the loan amount is > 0, the rate _find_max_rate
\* returns lies in [0.1%, 25%], debt service at it is below NOI, debt service
\* at every rate of the range more than one resolution step above it is >= NOI,
\* and lo <= hi.
C10_MaxRateIsHighestCovered ==
    (FindMaxRateReturned /\ core.noi > 0 /\ calc.loan_amount > 0)
        => /\ RateLo <= max_rate /\ max_rate <= RateHi
           /\ lo <= hi
           /\ DebtServiceAt(calc, max_rate) < core.noi
           /\ \A k \in (max_rate + 2)..RateHi : DebtServiceAt(calc, k) >= core.noi

\* C11: run_stress_tests returns exactly six scenarios in the order Vacancy
\* Doubles, Rate +2%, Rent -10%, Rent -20%, Expense Surge, Combined Downturn;
\* a scenario passes iff its annual cash flow is >= 0 and its DSCR is >= 1.0;
\* the overall risk score is the number of failing scenarios / 6 * 100 to one
\* decimal (here in tenths), and so lies in [0, 100].
C11_SixScenariosPassRuleRiskScore ==
    risk # Unset =>
        LET scen == risk.scenarios
            failing == {i \in 1..6 : ~scen[i].passes}
        IN  /\ [i \in 1..Len(scen) |-> scen[i].name]
                   = <<"Vacancy Doubles", "Rate +2%", "Rent -10%", "Rent -20%",
                       "Expense Surge", "Combined Downturn">>
            /\ \A i \in 1..6 :
                   scen[i].passes <=> (scen[i].cash_flow_annual >= 0 /\ scen[i].dscr >= 100)
            /\ risk.overall_risk_score = (Cardinality(failing) * 1000 + 3) \div 6
            /\ risk.overall_risk_score \in 0..1000

\* a finished risk analysis in which some scenarios pass and others fail
C11_Witness ==
    /\ risk # Unset
    /\ \E i, j \in 1..Len(risk.scenarios) :
          risk.scenarios[i].passes /\ ~risk.scenarios[j].passes

----------------------------------------------------------------------------
(* Properties of the scoring *)

\* the strategy scores of the state, as a set
ScoresReturned == {strategy_scores[i] : i \in 1..Len(strategy_scores)}

\* C12: every component score and the overall score of every StrategyScore the
\* five scorers return lies in [0, 100] (here in tenths: 0..1000), whatever the
\* inputs: negative cash-on-cash, infinite DSCR, undefined IRR, no cash invested.
C12_ScoresWithinBounds ==
    \A s \in ScoresReturned :
        /\ s.score \in 0..1000
        /\ \A k \in 1..Len(s.component_scores) : s.component_scores[k] \in 0..1000

\* five scores computed for an all-cash purchase (DSCR infinite) that loses
\* money (cash-on-cash negative) and whose IRR is undefined
C12_Witness ==
    /\ Len(strategy_scores) = 5
    /\ core.dscr = Inf
    /\ core.cash_on_cash_return < 0
    /\ projection.irr = NoneResult

\* the breakpoints of the grades, in points, highest first
Breakpoints ==
    << <<95, "A+">>, <<90, "A">>, <<85, "A-">>, <<80, "B+">>, <<75, "B">>, <<70, "B-">>,
       <<65, "C+">>, <<60, "C">>, <<55, "C-">>, <<50, "D+">>, <<45, "D">>, <<40, "D-">> >>

\* the grade the breakpoints assign to x (in units of 1/TotalUnit of a point)
BreakpointGrade(x) ==
    LET met == {k \in 1..Len(Breakpoints) : x >= Breakpoints[k][1] * TotalUnit}
    IN  IF met = {} THEN "F"
        ELSE Breakpoints[CHOOSE k \in met : \A j \in met : k <= j][2]

\* the rank of a grade: 0 for F up to 12 for A+
GradeRank(g) ==
    IF g = "F" THEN 0
    ELSE 13 - (CHOOSE k \in 1..Len(Breakpoints) : Breakpoints[k][2] = g)

\* C13 as claimed: the grade of every StrategyScore is the one the breakpoints
\* assign to the score reported in it.
C13_GradeOfReportedScore ==
    \A s \in ScoresReturned : s.grade = BreakpointGrade(s.score * 10000)

\* C13, amended: the grade is the one the breakpoints assign to the scorer's
\* total before it is rounded to one decimal; the reported score is that total
\* rounded, so the grade is the grade of the reported score or, when the total
\* lies less than 0.05 below a breakpoint, the grade just below it; a higher
\* reported score never has a lower grade.
C13_GradeOfUnroundedTotal ==
    /\ \A s \in ScoresReturned :
          /\ s.grade = BreakpointGrade(s.total)
          /\ s.score = RoundDiv(s.total, 10000)
          /\ s.grade # BreakpointGrade(s.score * 10000)
                => /\ s.total < s.score * 10000
                   /\ s.score * 10000 - s.total <= 5000
                   /\ GradeRank(s.grade) + 1 = GradeRank(BreakpointGrade(s.score * 10000))
    /\ \A s, t \in ScoresReturned :
          s.score < t.score => GradeRank(s.grade) <= GradeRank(t.grade)

\* a flip score reported as 95.0 with the grade A: its total is 94.96
C13_Witness ==
    \E s \in ScoresReturned :
        /\ s.strategy = "flip"
        /\ s.score = 950
        /\ s.total = 9496000
        /\ s.grade = "A"

\* C14: best_strategy of the returned result is one of the five entries of
\* strategy_scores, in the order rental, flip, brrrr, house_hack,
\* long_term_appreciation; no entry has a higher score, and every entry before
\* it has a lower one (the earliest of the maximal entries is selected).
C14_BestStrategyIsFirstMaximum ==
    result # Unset =>
        LET scores == result.strategy_scores
        IN  /\ [i \in 1..Len(scores) |-> scores[i].strategy]
                  = <<"rental", "flip", "brrrr", "house_hack", "long_term_appreciation">>
            /\ \E i \in 1..5 :
                  /\ result.best_strategy = scores[i]
                  /\ \A j \in 1..5 : scores[j].score <= scores[i].score
                  /\ \A j \in 1..(i - 1) : scores[j].score < scores[i].score

\* a returned result in which two strategies tie for the maximum score
C14_Witness ==
    /\ result # Unset
    /\ \E i, j \in 1..5 :
          /\ i < j
          /\ result.strategy_scores[i].score = result.strategy_scores[j].score
          /\ \A k \in 1..5 :
                result.strategy_scores[k].score <= result.strategy_scores[i].score

----------------------------------------------------------------------------
(* Properties of the comparables, the tax analysis and the terminal sale *)

\* C15: when the sale-listings fetch, the rental-listings fetch or both raise,
\* analyze_property still returns the full result, with the comparables of the
\* failed fetch empty; the rental fetch is attempted whatever the sale fetch
\* did; the scores, the projection and the risk analysis do not depend on what
\* the fetches did: the fetch step leaves them alone and the scores are those
\* of the core metrics, projection and risk analysis.
C15_FetchFailuresTolerated ==
    /\ [](/\ (comps # Unset /\ fetch_log # <<>>)
                => /\ [i \in 1..Len(fetch_log) |-> fetch_log[i].call]
                        = <<"get_sale_listings", "get_rental_listings">>
                   /\ fetch_log[1].raised => comps.sale_comps = <<>>
                   /\ fetch_log[2].raised => comps.rental_comps = <<>>
                   /\ ~fetch_log[1].raised => comps.sale_comps # <<>>
                   /\ ~fetch_log[2].raised => comps.rental_comps # <<>>
          /\ result # Unset
                => /\ DOMAIN result = {"core_metrics", "projection", "tax_analysis",
                                       "risk_analysis", "comparables", "strategy_scores",
                                       "best_strategy"}
                   /\ result.comparables = comps
                   /\ result.core_metrics = calculate_core_metrics(calc)
                   /\ result.risk_analysis = risk
                   /\ result.projection = projection
                   /\ result.strategy_scores
                        = score_all_strategies(calc, calculate_core_metrics(calc), projection, risk)
          /\ calc_pc \in {"scores", "result"} => result = Unset)
    /\ [][calc_pc = "comps"
            => /\ calc_pc' = "scores"
               /\ UNCHANGED <<calc, core, projection, tax, risk>>]_vars

\* a result returned after the sale fetch raised and the rental fetch returned
\* listings
C15_Witness ==
    /\ result # Unset
    /\ Len(fetch_log) = 2
    /\ fetch_log[1].raised
    /\ ~fetch_log[2].raised
    /\ result.comparables.sale_comps = <<>>
    /\ result.comparables.rental_comps # <<>>

\* C16: taxable income = NOI - annual depreciation - year-1 interest (0 with an
\* empty schedule); paper loss = min(taxable income, 0); tax savings =
\* |paper loss| * marginal rate; tax owed = max(taxable income, 0) * marginal
\* rate; effective after-tax cash flow = pre-tax cash flow - tax owed + tax
\* savings.  So the paper loss is <= 0 and tax savings and tax owed are never
\* both non-zero.
C16_TaxAnalysisFormulas ==
    tax # Unset =>
        LET interest == IF calc.amortization = <<>> THEN 0
                        ELSE calc.amortization[1].interest_paid
            owed == Pct(Max(tax.taxable_income, 0), calc.marginal_tax_rate)
        IN  /\ tax.mortgage_interest_year1 = interest
            /\ tax.taxable_income = core.noi - calc.annual_depreciation - interest
            /\ tax.paper_loss = Min(tax.taxable_income, 0)
            /\ tax.paper_loss <= 0
            /\ tax.tax_savings = Pct(-tax.paper_loss, calc.marginal_tax_rate)
            /\ tax.effective_cash_flow_after_tax
                  = core.cash_flow_before_tax - owed + tax.tax_savings
            /\ tax.tax_savings = 0 \/ owed = 0

\* a tax analysis with a paper loss and its tax savings, on a schedule with
\* interest in year 1
C16_Witness ==
    /\ tax # Unset
    /\ calc.amortization # <<>>
    /\ tax.mortgage_interest_year1 > 0
    /\ tax.paper_loss < 0
    /\ tax.tax_savings > 0

\* C17 as claimed: the after-tax cash flow of every projected year is the
\* pre-tax cash flow - tax owed + tax savings, the tax savings being
\* |min(taxable income, 0)| * marginal rate, so that the year-1 entry equals the
\* effective after-tax cash flow of the tax analysis.
C17_ProjectionAfterTaxAsTaxAnalysis ==
    tax # Unset =>
        /\ \A y \in 1..Len(projection.years) :
              LET yr == projection.years[y]
              IN  yr.cash_flow_after_tax
                    = yr.cash_flow_before_tax
                      - Pct(Max(yr.taxable_income, 0), calc.marginal_tax_rate)
                      + Pct(-Min(yr.taxable_income, 0), calc.marginal_tax_rate)
        /\ projection.years[1].cash_flow_after_tax = tax.effective_cash_flow_after_tax

\* C20: for hold_years in 1..30 the terminal sale price is the property value
\* of year hold_years, the selling costs are 6% of it, the depreciation
\* recapture tax is min(annual depreciation * hold_years, depreciable basis) *
\* 25%, and the net sale proceeds are sale price - selling costs - loan balance
\* of year hold_years - recapture tax.
C20_TerminalSale ==
    (projection # Unset /\ calc.hold_years \in 1..30) =>
        LET yr == projection.years[calc.hold_years]
            recapture == Pct(Min(calc.annual_depreciation * calc.hold_years,
                                 calc.depreciable_basis), 2500)
        IN  /\ yr.year = calc.hold_years
            /\ projection.terminal_sale_price = yr.property_value
            /\ projection.selling_costs = Pct(yr.property_value, 600)
            /\ projection.depreciation_recapture_tax = recapture
            /\ projection.net_sale_proceeds
                  = yr.property_value - Pct(yr.property_value, 600) - yr.loan_balance - recapture

\* a projection sold after year 1 with a loan balance left
C20_Witness ==
    /\ projection # Unset
    /\ calc.hold_years = 1
    /\ projection.years[1].loan_balance > 0
    /\ projection.depreciation_recapture_tax > 0

\* C18: for the worked scenario (price 200,000, rent 1,500, down payment
\* 40,000, monthly P&I 1,011.36, property tax 3,000, insurance 1,000,
\* maintenance 1%, capex 3%, vacancy 5%, management 10%) the core metrics are
\* gross income 18,000, vacancy loss 900, EGI 17,100, operating expenses 13,800,
\* NOI 3,300, annual debt service 12,136.32, pre-tax cash flow -8,836.32, DSCR
\* 0.27 and cap rate 1.65, and the "Rate +2%" scenario does not pass.
C18_WorkedScenario ==
    calc = WorkedScenario =>
        /\ core # Unset =>
              /\ core.gross_rental_income = 1800000
              /\ core.vacancy_loss = 90000
              /\ core.effective_gross_income = 1710000
              /\ core.operating_expenses = 1380000
              /\ core.noi = 330000
              /\ core.annual_debt_service = 1213632
              /\ core.cash_flow_before_tax = -883632
              /\ core.dscr = 27
              /\ core.cap_rate = 165
        /\ (scenarios # <<>> => ~ScenarioNamed("Rate +2%").passes)

\* the worked scenario with its risk analysis finished
C18_Witness ==
    /\ calc = WorkedScenario
    /\ risk # Unset
    /\ calc.purchase_price = 20000000
    /\ calc.annual_debt_service = 1213632

\* C19: no operation of the calculator divides by zero when the purchase price,
\* the rent (gross income, EGI), the total cash invested or the annual debt
\* service is 0 (every operation of the pipeline yields its result for such
\* calculators); the fallbacks are cash-on-cash 0 without cash invested, in the
\* core metrics and in every stress scenario, cap rate, gross yield and
\* rent-to-value 0 without a price, opex ratio 0 without EGI, DSCR infinite
\* without debt service, equity multiple 0 without cash invested.
C19_ZeroDenominatorFallbacks ==
    /\ core # Unset =>
          /\ (calc.total_cash_invested = 0 => core.cash_on_cash_return = 0)
          /\ (calc.purchase_price = 0
                => core.cap_rate = 0 /\ core.gross_rental_yield = 0 /\ core.rent_to_value = 0)
          /\ (core.effective_gross_income = 0 => core.opex_ratio = 0)
          /\ (calc.annual_debt_service = 0 => core.dscr = Inf)
    /\ (projection # Unset /\ calc.total_cash_invested = 0)
          => projection.equity_multiple = 0
    /\ calc.total_cash_invested = 0
          => \A i \in 1..Len(scenarios) : scenarios[i].cash_on_cash = 0
    /\ calc_pc = "done" =>
          /\ core # Unset /\ projection # Unset /\ tax # Unset /\ risk # Unset
          /\ Len(scenarios) = 6
          /\ Len(strategy_scores) = 5
          /\ result # Unset

\* a finished analysis of a calculator with no price, no rent, no cash invested
\* and no debt service
C19_Witness ==
    /\ calc_pc = "done"
    /\ calc.purchase_price = 0
    /\ calc.estimated_rent = 0
    /\ calc.total_cash_invested = 0
    /\ calc.annual_debt_service = 0

\* C21 as claimed: every consumer of projection.irr tells an undefined IRR
\* (None) from an IRR of exactly 0: with every other input equal, the rental
\* score, the long-term score, the long-term IRR note and the IRR line of the
\* executive summary of an analysis whose IRR is None all differ from those of
\* the analysis whose IRR is 0.
C21_UndefinedIrrDistinctFromZero ==
    (strategy_scores # << >> /\ projection.irr = NoneResult) =>
        LET zero == [projection EXCEPT !.irr = RateResult(0)]
        IN  /\ strategy_scores[1] # score_rental(calc, core, zero, risk)
            /\ strategy_scores[5] # score_long_term(calc, core, zero, risk)
            /\ long_term_irr_note(projection.irr) # long_term_irr_note(zero.irr)
            /\ summary_irr_line(projection) # summary_irr_line(zero)

\* C23: the equity multiple of the projection is the sum of the entries of the
\* IRR series after the first divided by total_cash_invested, to 2 decimals
\* (here in hundredths, within half a hundredth of the exact quotient), and 0
\* when total_cash_invested is not positive; for hold_years in 1..30 that sum
\* is the after-tax cash flows of years 1..hold_years plus the net sale proceeds.
C23_EquityMultiple ==
    projection # Unset =>
        LET s == projection.cash_flows
            later == SumSeq([i \in 1..(Len(s) - 1) |-> s[i + 1]])
            tci == calc.total_cash_invested
            whole == later \div tci
            rest == later % tci
            h == calc.hold_years
        IN  /\ tci <= 0 => projection.equity_multiple = 0
            /\ tci > 0 =>
                  2 * Abs(100 * rest - (projection.equity_multiple - 100 * whole) * tci) <= tci
            /\ h \in 1..ProjectionYears =>
                  later = SumSeq([y \in 1..h |-> projection.years[y].cash_flow_after_tax])
                          + projection.net_sale_proceeds

\* an equity multiple that is neither 0 nor a whole number, from a series of
\* several years with a sale
C23_Witness ==
    /\ projection # Unset
    /\ calc.total_cash_invested > 0
    /\ Len(projection.cash_flows) > 2
    /\ projection.equity_multiple > 100
    /\ projection.equity_multiple % 100 # 0

\* a / b < c / d for b > 0 and d > 0, compared by whole parts and remainders so
\* that no product is formed
RECURSIVE FracLess(_, _, _, _)
FracLess(a, b, c, d) ==
    IF a \div b # c \div d THEN a \div b < c \div d
    ELSE IF c % d = 0 THEN FALSE
    ELSE IF a % b = 0 THEN TRUE
    ELSE FracLess(d, c % d, b, a % b)

\* a first entry that is negative, later entries that are non-negative, one of
\* them positive
OutlayThenReturns(cfs) ==
    /\ Len(cfs) >= 2
    /\ cfs[1] < 0
    /\ \A i \in 2..Len(cfs) : cfs[i] >= 0
    /\ \E i \in 2..Len(cfs) : cfs[i] > 0

\* C24: calculate_npv returns None for an empty series and otherwise the sum
\* over t of cash_flows[t] / (1 + rate)^t: the value of a one-entry series is
\* that entry, and the value of a longer series is its first entry plus the
\* value of the rest discounted once.  For a negative first entry followed by
\* non-negative entries, one of them positive, the value at a higher rate
\* (above -1) is strictly lower.
C24_NpvSumAndDecreasing ==
    npv # Unset =>
        LET rate == npv.discount_rate
            v == npv.value
            rest == calculate_npv(Tail(cash_flows), rate)
        IN  /\ Len(cash_flows) = 0 <=> v = NoneResult
            /\ Len(cash_flows) = 1 => v.num = cash_flows[1] * v.den
            /\ Len(cash_flows) >= 2 =>
                  /\ v.den = rest.den * OnePlus(rate)
                  /\ v.num = cash_flows[1] * v.den + rest.num * RateScale
            /\ Len(cash_flows) >= 1 => v.den > 0
            /\ OutlayThenReturns(cash_flows) =>
                  \A higher \in DiscountRates :
                      higher > rate =>
                          LET w == calculate_npv(cash_flows, higher)
                          IN  FracLess(w.num, w.den, v.num, v.den)

\* a series of an outlay and two returns valued at 8%, positive there and
\* negative at 100%
C24_Witness ==
    /\ npv # Unset
    /\ npv.discount_rate = 8
    /\ Len(cash_flows) = 3
    /\ OutlayThenReturns(cash_flows)
    /\ npv.value.num > 0
    /\ calculate_npv(cash_flows, 100).num < 0

\* C28: max_purchase_price lies in [0, 2 * purchase_price]; it is exactly
\* 1.5 * purchase_price when the pre-tax cash flow exceeds 8% of the total cash
\* invested; when the cash flow is at or below that target it never exceeds
\* the purchase price and is 0 for NOI <= 0; it is 0 when the total cash
\* invested or the purchase price is not positive.
C28_MaxPurchasePriceBounds ==
    risk # Unset =>
        LET max_price == risk.break_even.max_purchase_price
            price == calc.purchase_price
            defined == calc.total_cash_invested > 0 /\ price > 0
            above == 25 * core.cash_flow_before_tax > 2 * calc.total_cash_invested
        IN  /\ 0 <= max_price
            /\ max_price <= 2 * Max(price, 0)
            /\ (defined /\ above) => 2 * max_price = 3 * price
            /\ (defined /\ ~above) => max_price <= price
            /\ (defined /\ ~above /\ core.noi <= 0) => max_price = 0
            /\ ~defined => max_price = 0

\* a cash flow below the target with a positive NOI: the price scaled down,
\* strictly between 0 and the purchase price
C28_Witness ==
    /\ risk # Unset
    /\ calc.total_cash_invested > 0
    /\ 25 * core.cash_flow_before_tax <= 2 * calc.total_cash_invested
    /\ core.noi > 0
    /\ risk.break_even.max_purchase_price > 0
    /\ risk.break_even.max_purchase_price < calc.purchase_price

\* C30: in every stress scenario passes is true exactly when the annual cash
\* flow is >= 0: a non-negative cash flow comes with a DSCR of at least 1.0
\* (+infinity without debt service), so the DSCR test never fails a scenario
\* that the cash-flow test passes.
C30_PassesIffCashFlowNonNegative ==
    \A i \in 1..Len(scenarios) :
        LET sc == scenarios[i]
        IN  /\ sc.passes <=> sc.cash_flow_annual >= 0
            /\ sc.cash_flow_annual >= 0 => sc.dscr >= 100
            /\ sc.dscr < 100 => ~sc.passes

\* a scenario with debt service that passes with a DSCR under 1.25, next to one
\* that fails
C30_Witness ==
    /\ Len(scenarios) = 6
    /\ \E i \in 1..6 : /\ scenarios[i].passes
                       /\ scenarios[i].dscr >= 100
                       /\ scenarios[i].dscr < 125
    /\ \E i \in 1..6 : ~scenarios[i].passes /\ scenarios[i].dscr < 100

\* C29: the projection holds exactly 30 records, for the years 1..30 in
\* increasing order, and in every one of them debt_service is the loan's annual
\* debt service, also in the years beyond the end of the amortization
\* schedule, whose mortgage interest and loan balance are 0.
C29_ThirtyYearsConstantDebtService ==
    projection # Unset =>
        /\ Len(projection.years) = 30
        /\ \A y \in 1..Len(projection.years) :
              LET yr == projection.years[y]
              IN  /\ yr.year = y
                  /\ yr.debt_service = calc.annual_debt_service
                  /\ y > Len(calc.amortization) =>
                        /\ yr.mortgage_interest = 0
                        /\ yr.loan_balance = 0
                        /\ yr.cash_flow_before_tax = yr.noi - calc.annual_debt_service

\* a two-year loan with its schedule: year 2 still carries interest, year 3 lies
\* beyond the loan term and still carries the debt service
C29_Witness ==
    /\ projection # Unset
    /\ calc.loan_term = 2
    /\ Len(calc.amortization) = 2
    /\ calc.annual_debt_service > 0
    /\ projection.years[2].mortgage_interest > 0
    /\ projection.years[3].mortgage_interest = 0
    /\ projection.years[3].debt_service = calc.annual_debt_service

\* the result is an error result
IsError(res) == "error" \in DOMAIN res

\* C27: analyze_property ends every request with a result.  It is an error
\* result, with no client call issued, when the URL does not parse; an error
\* result when the primary lookup raises or when no non-zero purchase price is
\* supplied or found; and with an error result no loan, projection, risk or
\* scoring computation has been made.  A raised fallback rent-estimate fetch or
\* market-statistics fetch never gives an error result: the analysis goes on
\* with rent 0, or without market statistics, to the full result.
C27_FetchFailuresNeverPropagate ==
    request # Unset =>
        /\ calc_pc \in {"done", "error"} => result # Unset
        /\ calc_pc = "error" <=> (result # Unset /\ IsError(result))
        /\ calc_pc = "error" =>
              /\ calc = Unset
              /\ core = Unset /\ projection = Unset /\ tax = Unset /\ risk = Unset
              /\ scenarios = << >> /\ strategy_scores = << >>
        /\ (calc_pc \in {"done", "error"} /\ ~request.url_parses) => (IsError(result) /\ calls = << >>)
        /\ (calc_pc \in {"done", "error"} /\ calls # << >> /\ calls[1].raised) => IsError(result)
        /\ (calc_pc \in {"done", "error"} /\ request.purchase_price = {0}) => IsError(result)
        /\ looked_up # Unset =>
              /\ looked_up.purchase_price # 0
              /\ looked_up.purchase_price
                    \in request.purchase_price \cup looked_up.property_data.price
                        \cup looked_up.property_data.estimated_value
                        \cup looked_up.property_data.lastSalePrice
              /\ result # Unset => ~IsError(result)
              /\ \A i \in 1..Len(calls) :
                    calls[i].raised =>
                        /\ calls[i].call \in {"get_rent_estimate", "get_market_statistics"}
                        /\ calls[i].call = "get_rent_estimate" => looked_up.estimated_rent = 0
                        /\ calls[i].call = "get_market_statistics" => looked_up.market_stats = {}
        /\ (calc_pc = "done" /\ looked_up # Unset) =>
              /\ result.core_metrics = core
              /\ result.strategy_scores = strategy_scores /\ Len(strategy_scores) = 5
              /\ result.risk_analysis = risk
              /\ calc.estimated_rent = looked_up.estimated_rent
              /\ calc.purchase_price = looked_up.purchase_price

\* a finished analysis whose fallback rent-estimate fetch and market-statistics
\* fetch both raised: rent 0, no market statistics, five scores
C27_Witness ==
    /\ request # Unset
    /\ calc_pc = "done"
    /\ ~IsError(result)
    /\ \E i \in 1..Len(calls) : calls[i].call = "get_rent_estimate" /\ calls[i].raised
    /\ \E i \in 1..Len(calls) : calls[i].call = "get_market_statistics" /\ calls[i].raised
    /\ calc.estimated_rent = 0
    /\ looked_up.market_stats = {}
    /\ Len(result.strategy_scores) = 5

----------------------------------------------------------------------------
(* C25: the current rate of the engine and the rate of the loan terms *)

\* C25 (as claimed): in a call of analyze_property, the interest rate the
\* calculator holds as the loan's current rate is the interest_rate the call
\* was given and calculate_loan_details computed the loan terms with, and the
\* "Rate +2%" scenario is that rate plus two points: its debt service is the
\* payment at the request's rate + 2%.
C25_CurrentRateIsLoanRate ==
    (request # Unset /\ calc # Unset)
        => /\ calc.loan_details.interest_rate = request.interest_rate
           /\ calc.interest_rate = request.interest_rate
           /\ (scenarios # <<>> /\ core # Unset
                 => ScenarioNamed("Rate +2%").cash_flow_annual
                      = core.noi - 12 * calculate_monthly_payment(calc.loan_amount,
                                            request.interest_rate + 20, calc.loan_term))

----------------------------------------------------------------------------
(* C26: the property tax and insurance the caller supplies *)

\* C26 (as claimed): in a call of analyze_property that supplies
\* property_tax_annual or insurance_annual, the calculator holds the supplied
\* annual figures, the ones behind the monthly figures of the loan details,
\* and the operating expenses, NOI and cash flow of the core metrics are
\* computed with them.
C26_SuppliedTaxAndInsuranceUsed ==
    (request # Unset /\ calc # Unset)
        => LET supplied_tax == request.property_tax_annual
               supplied_ins == request.insurance_annual
               tax_used == IF IsNone(supplied_tax) THEN Pct(calc.purchase_price, 150)
                           ELSE ValueOf(supplied_tax)
               ins_used == IF IsNone(supplied_ins) THEN Pct(calc.purchase_price, 50)
                           ELSE ValueOf(supplied_ins)
               opex == tax_used + ins_used + calc.pmi_annual + calc.hoa_annual
                       + calc.maintenance_annual + calc.capex_reserve_annual
                       + Pct(calc.estimated_rent * 12, calc.management_fee_pct)
           IN  /\ calc.loan_details.property_tax_monthly = RoundDiv(tax_used, 12)
               /\ calc.loan_details.insurance_monthly = RoundDiv(ins_used, 12)
               /\ calc.property_tax_annual = tax_used
               /\ calc.insurance_annual = ins_used
               /\ (core # Unset
                     => /\ core.operating_expenses = opex
                        /\ core.noi = core.effective_gross_income - opex
                        /\ core.cash_flow_before_tax
                             = core.effective_gross_income - opex - calc.annual_debt_service)

----------------------------------------------------------------------------
(* C22: the analyses leave the calculator and the results alone *)

\* the analyses of the calculator have started
AnalysesRunning == calc # Unset /\ calc_pc \notin {"loan", "error"}

\* C22: once the calculator is constructed, no step of the analyses changes
\* it (its fields, its loan_details map, its amortization sequence), and no
\* step changes a result object an earlier step produced; so at every point
\* each result held equals what the same method returns when called again on
\* the calculator (the IRR search apart, which is given its outcome), and in a
\* call of analyze_property the calculator is the one built from the request
\* and the looked-up property alone.
C22_AnalysesLeaveCalculatorAndResults ==
    /\ [](AnalysesRunning
            => /\ (core # Unset => core = calculate_core_metrics(calc))
               /\ (projection # Unset
                     => projection = ProjectionResult(generate_multi_year_projection(calc),
                                                      projection.irr))
               /\ (tax # Unset => tax = calculate_tax_analysis(calc, core))
               /\ (scenarios # <<>> => scenarios = StressScenarios(calc))
               /\ (risk # Unset
                     => /\ risk.scenarios = StressScenarios(calc)
                        /\ risk.break_even.min_monthly_rent = MinMonthlyRent(calc, core)
                        /\ risk.break_even.max_purchase_price = MaxPurchasePrice(calc, core)
                        /\ risk.break_even.max_vacancy_rate = MaxVacancyRate(calc, core)
                        /\ risk.overall_risk_score = overall_risk_score(StressScenarios(calc)))
               /\ (strategy_scores # <<>>
                     => /\ strategy_scores = score_all_strategies(calc, core, projection, risk)
                        /\ best_strategy = best_strategy_of(strategy_scores))
               /\ (request # Unset
                     => LET loan_details == calculate_loan_details(looked_up.purchase_price,
                                                "conventional", {}, request.interest_rate,
                                                request.loan_term_years,
                                                request.property_tax_annual,
                                                request.insurance_annual, 0)
                        IN  calc = InvestmentCalculator(looked_up.purchase_price,
                                       looked_up.estimated_rent, loan_details,
                                       generate_amortization_schedule(loan_details.loan_amount,
                                           request.interest_rate, request.loan_term_years),
                                       DefaultAssumptions)))
    /\ [][AnalysesRunning
            => /\ calc' = calc
               /\ (core # Unset => core' = core)
               /\ (projection # Unset => projection' = projection)
               /\ (tax # Unset => tax' = tax)
               /\ (scenarios # <<>> => scenarios' = scenarios)
               /\ (risk # Unset => risk' = risk)
               /\ (comps # Unset => comps' = comps)
               /\ (strategy_scores # <<>>
                     => strategy_scores' = strategy_scores /\ best_strategy' = best_strategy)
               /\ (request # Unset => request' = request /\ looked_up' = looked_up)]_vars

\* a call of analyze_property at 9% has returned its result: every analysis
\* has run on the calculator, with an amortization schedule and six scenarios
C22_Witness ==
    /\ request # Unset
    /\ request.interest_rate = 90
    /\ calc_pc = "done"
    /\ result # Unset
    /\ calc.amortization # <<>>
    /\ core # Unset /\ projection # Unset /\ tax # Unset /\ risk # Unset
    /\ Len(scenarios) = 6
    /\ Len(strategy_scores) = 5
    /\ result.core_metrics = core

====
